---- MODULE Spec2Model ----
(***************************************************************************)
(* WooCommerce / WordPress MCP gateway (ganeshbehera/woomcp).              *)
(*                                                                         *)
(* The model follows handleWooCommerceRequest of src/index.ts and of       *)
(* src/sse-server.ts: credential resolution, the choice of the upstream    *)
(* family, the validation of required parameters, the construction of the  *)
(* upstream call and the read-modify-write of meta_data.  One dispatch is  *)
(* a sequence of steps separated by the handler's awaits.                  *)
(*                                                                         *)
(* JavaScript values are tokens (strings): "undefined", "null", "", "0"    *)
(* and "false" are the falsy ones, every other string is truthy.  Objects  *)
(* are functions from their own keys to values, a missing key reads as     *)
(* "undefined".                                                            *)
(***************************************************************************)
EXTENDS Naturals, Integers, Sequences, FiniteSets, TLC

VARIABLES
  entry,      \* the entry file the process runs: "index" or "sse"
  defaults,   \* DEFAULT_SITE_URL ... DEFAULT_CONSUMER_SECRET of that process
  disp,       \* per request slot: the dispatch in flight and its position
  mode,       \* the server started by main(): "http" or "mcp" (stdin/stdout)
  wire,       \* per request slot: the inbound request as its transport got it
  out,        \* per request slot: the responses written for that request
  sseConnections,  \* channel -> the response streams subscribed to it
  streams,    \* per response stream: whether write throws, what was written
  store,      \* the upstream entity's meta_data
  proc        \* the process: running, closing after a signal, or exited

vars == <<entry, defaults, disp, mode, wire, out, sseConnections, streams, store, proc>>

----
\* JavaScript values

Undef == "undefined"

Falsy == {"undefined", "null", "", "0", "false"}

Truthy(v) == v \notin Falsy

\* a || b
Or(a, b) == IF Truthy(a) THEN a ELSE b

EmptyObj == [k \in {} |-> Undef]

\* obj.k
Get(obj, k) == IF k \in DOMAIN obj THEN obj[k] ELSE Undef

\* { ...a, ...b }
Spread(a, b) ==
  [k \in DOMAIN a \cup DOMAIN b |-> IF k \in DOMAIN b THEN b[k] ELSE a[k]]

\* Array.prototype.findIndex(meta => meta.key === key), 1-based; 0 when
\* nothing matches (-1 in JS)
findIndex(seq, key) ==
  IF \E i \in 1..Len(seq) : seq[i].key = key
    THEN CHOOSE i \in 1..Len(seq) :
           seq[i].key = key /\ \A j \in 1..(i - 1) : seq[j].key # key
    ELSE 0

\* Array.prototype.filter(meta => meta.key !== key)
RECURSIVE filterOut(_, _)
filterOut(seq, key) ==
  IF seq = <<>> THEN <<>>
  ELSE IF Head(seq).key # key
    THEN <<Head(seq)>> \o filterOut(Tail(seq), key)
    ELSE filterOut(Tail(seq), key)

\* Array.prototype.filter(meta => meta.key === key)
RECURSIVE filterKey(_, _)
filterKey(seq, key) ==
  IF seq = <<>> THEN <<>>
  ELSE IF Head(seq).key = key
    THEN <<Head(seq)>> \o filterKey(Tail(seq), key)
    ELSE filterKey(Tail(seq), key)

----
\* Credentials

CredFields == {"siteUrl", "username", "password", "consumerKey", "consumerSecret"}

\* what an environment variable holds when it is set
EnvVal ==
  [siteUrl |-> "https://env.example", username |-> "env_user",
   password |-> "env_pass", consumerKey |-> "ck_env", consumerSecret |-> "cs_env"]

\* what a request supplies when it supplies the field
ReqVal ==
  [siteUrl |-> "https://req.example", username |-> "req_user",
   password |-> "req_pass", consumerKey |-> "ck_req", consumerSecret |-> "cs_req"]

\* process.env.X || ""
DefaultsSet == {d \in [CredFields -> {""} \cup {EnvVal[f] : f \in CredFields}] :
                   \A f \in CredFields : d[f] \in {"", EnvVal[f]}}

\* Resolve with the operands of || exchanged: the default wins
ResolveDefaultFirst(params, dflt) ==
  [siteUrl        |-> Or(dflt.siteUrl, Get(params, "siteUrl")),
   username       |-> Or(dflt.username, Get(params, "username")),
   password       |-> Or(dflt.password, Get(params, "password")),
   consumerKey    |-> Or(dflt.consumerKey, Get(params, "consumerKey")),
   consumerSecret |-> Or(dflt.consumerSecret, Get(params, "consumerSecret"))]

\* const siteUrl = params.siteUrl || DEFAULT_SITE_URL; ... (one line per field)
Resolve(params, dflt) ==
  [siteUrl        |-> Or(Get(params, "siteUrl"), dflt.siteUrl),
   username       |-> Or(Get(params, "username"), dflt.username),
   password       |-> Or(Get(params, "password"), dflt.password),
   consumerKey    |-> Or(Get(params, "consumerKey"), dflt.consumerKey),
   consumerSecret |-> Or(Get(params, "consumerSecret"), dflt.consumerSecret)]

----
\* Errors: new Error(text + arg)

Err(text, arg) == [text |-> text, arg |-> arg]

MsgSiteUrl ==
  Err("WordPress site URL not provided in environment variables or request parameters", "")

MsgWpCred ==
  Err("WordPress credentials not provided in environment variables or request parameters", "")

MsgWooCred ==
  Err("WooCommerce API credentials not provided in environment variables or request parameters", "")

MsgUnknown(method) == Err("Unknown method: ", method)

NoError == Err("", "")

----
\* The method lists and the switch

wpMethods ==
  {"create_post", "get_posts", "update_post", "get_post_meta",
   "update_post_meta", "create_post_meta", "delete_post_meta"}

wooMethods ==
  {"get_products", "get_product", "create_product", "update_product",
   "delete_product", "get_orders", "get_order", "create_order",
   "update_order", "delete_order", "get_customers", "get_customer",
   "create_customer", "update_customer", "delete_customer",
   "get_sales_report", "get_products_report", "get_orders_report",
   "get_categories_report", "get_customers_report", "get_stock_report",
   "get_coupons_report", "get_taxes_report", "get_shipping_zones",
   "get_shipping_zone", "create_shipping_zone", "update_shipping_zone",
   "delete_shipping_zone", "get_shipping_methods",
   "get_shipping_zone_methods", "create_shipping_zone_method",
   "update_shipping_zone_method", "delete_shipping_zone_method",
   "get_shipping_zone_locations", "update_shipping_zone_locations",
   "get_tax_classes", "create_tax_class", "delete_tax_class",
   "get_tax_rates", "get_tax_rate", "create_tax_rate", "update_tax_rate",
   "delete_tax_rate", "get_coupons", "get_coupon", "create_coupon",
   "update_coupon", "delete_coupon", "get_order_notes", "get_order_note",
   "create_order_note", "delete_order_note", "get_order_refunds",
   "get_order_refund", "create_order_refund", "delete_order_refund",
   "get_product_variations", "get_product_variation",
   "create_product_variation", "update_product_variation",
   "delete_product_variation", "get_product_attributes",
   "get_product_attribute", "create_product_attribute",
   "update_product_attribute", "delete_product_attribute",
   "get_attribute_terms", "get_attribute_term", "create_attribute_term",
   "update_attribute_term", "delete_attribute_term",
   "get_product_categories", "get_product_category",
   "create_product_category", "update_product_category",
   "delete_product_category", "get_product_tags", "get_product_tag",
   "create_product_tag", "update_product_tag", "delete_product_tag",
   "get_product_reviews", "get_product_review", "create_product_review",
   "update_product_review", "delete_product_review", "get_payment_gateways",
   "get_payment_gateway", "update_payment_gateway", "get_settings",
   "get_setting_options", "update_setting_option", "get_system_status",
   "get_system_status_tools", "run_system_status_tool", "get_data",
   "get_continents", "get_countries", "get_currencies",
   "get_current_currency", "get_product_meta", "update_product_meta",
   "create_product_meta", "delete_product_meta", "get_order_meta",
   "update_order_meta", "create_order_meta", "delete_order_meta",
   "get_customer_meta", "update_customer_meta", "create_customer_meta",
   "delete_customer_meta"}

\* path templates: a literal segment, or ${params.<name>}
L(s) == [lit |-> s]

P(s) == [param |-> s]

\* switch (method) of src/index.ts, one entry per case label:
\*   checks   the `if (...) throw new Error(msg)` guards, in source order
\*   verb     the verb of the (first) client call
\*   path     its path template; when pathIf is a parameter name, path is
\*            used when that parameter is truthy and pathElse otherwise
\*   query    the request-level `params: {...}` entries k: params.from || dflt
\*   spread   whether `...params.filters` ends that object
\*   body     the parameter sent as body, "" for none, "@<method>" for an
\*            object literal built in the case
\*   kind     "call": one call, its data returned; "metaGet": GET, meta_data
\*            returned; "metaSet"/"metaDelete": GET then PUT of meta_data
IndexCases ==
  [
  create_post |->
    [kind |-> "call", verb |-> "post",
     checks |-> <<[fields |-> <<"title", "content">>, test |-> "falsy", msg |-> "Title and content are required for creating a post"]>>,
     pathIf |-> "", path |-> <<L("posts")>>, pathElse |-> <<>>,
     query |-> <<>>, spread |-> FALSE, body |-> "@create_post"],
  get_posts |->
    [kind |-> "call", verb |-> "get",
     checks |-> <<>>,
     pathIf |-> "", path |-> <<L("posts")>>, pathElse |-> <<>>,
     query |-> <<[key |-> "per_page", from |-> "perPage", dflt |-> "10"], [key |-> "page", from |-> "page", dflt |-> "1"]>>, spread |-> FALSE, body |-> ""],
  update_post |->
    [kind |-> "call", verb |-> "post",
     checks |-> <<[fields |-> <<"postId">>, test |-> "falsy", msg |-> "Post ID is required for updating a post"]>>,
     pathIf |-> "", path |-> <<L("posts"), P("postId")>>, pathElse |-> <<>>,
     query |-> <<>>, spread |-> FALSE, body |-> "@update_post"],
  get_products |->
    [kind |-> "call", verb |-> "get",
     checks |-> <<>>,
     pathIf |-> "", path |-> <<L("products")>>, pathElse |-> <<>>,
     query |-> <<[key |-> "per_page", from |-> "perPage", dflt |-> "10"], [key |-> "page", from |-> "page", dflt |-> "1"]>>, spread |-> TRUE, body |-> ""],
  get_product |->
    [kind |-> "call", verb |-> "get",
     checks |-> <<[fields |-> <<"productId">>, test |-> "falsy", msg |-> "Product ID is required"]>>,
     pathIf |-> "", path |-> <<L("products"), P("productId")>>, pathElse |-> <<>>,
     query |-> <<>>, spread |-> FALSE, body |-> ""],
  create_product |->
    [kind |-> "call", verb |-> "post",
     checks |-> <<[fields |-> <<"productData">>, test |-> "falsy", msg |-> "Product data is required for creating a product"]>>,
     pathIf |-> "", path |-> <<L("products")>>, pathElse |-> <<>>,
     query |-> <<>>, spread |-> FALSE, body |-> "productData"],
  update_product |->
    [kind |-> "call", verb |-> "put",
     checks |-> <<[fields |-> <<"productId">>, test |-> "falsy", msg |-> "Product ID is required for updating a product"], [fields |-> <<"productData">>, test |-> "falsy", msg |-> "Product data is required for updating a product"]>>,
     pathIf |-> "", path |-> <<L("products"), P("productId")>>, pathElse |-> <<>>,
     query |-> <<>>, spread |-> FALSE, body |-> "productData"],
  delete_product |->
    [kind |-> "call", verb |-> "delete",
     checks |-> <<[fields |-> <<"productId">>, test |-> "falsy", msg |-> "Product ID is required for deleting a product"]>>,
     pathIf |-> "", path |-> <<L("products"), P("productId")>>, pathElse |-> <<>>,
     query |-> <<[key |-> "force", from |-> "force", dflt |-> "false"]>>, spread |-> FALSE, body |-> ""],
  get_orders |->
    [kind |-> "call", verb |-> "get",
     checks |-> <<>>,
     pathIf |-> "", path |-> <<L("orders")>>, pathElse |-> <<>>,
     query |-> <<[key |-> "per_page", from |-> "perPage", dflt |-> "10"], [key |-> "page", from |-> "page", dflt |-> "1"]>>, spread |-> TRUE, body |-> ""],
  get_order |->
    [kind |-> "call", verb |-> "get",
     checks |-> <<[fields |-> <<"orderId">>, test |-> "falsy", msg |-> "Order ID is required"]>>,
     pathIf |-> "", path |-> <<L("orders"), P("orderId")>>, pathElse |-> <<>>,
     query |-> <<>>, spread |-> FALSE, body |-> ""],
  create_order |->
    [kind |-> "call", verb |-> "post",
     checks |-> <<[fields |-> <<"orderData">>, test |-> "falsy", msg |-> "Order data is required for creating an order"]>>,
     pathIf |-> "", path |-> <<L("orders")>>, pathElse |-> <<>>,
     query |-> <<>>, spread |-> FALSE, body |-> "orderData"],
  update_order |->
    [kind |-> "call", verb |-> "put",
     checks |-> <<[fields |-> <<"orderId">>, test |-> "falsy", msg |-> "Order ID is required for updating an order"], [fields |-> <<"orderData">>, test |-> "falsy", msg |-> "Order data is required for updating an order"]>>,
     pathIf |-> "", path |-> <<L("orders"), P("orderId")>>, pathElse |-> <<>>,
     query |-> <<>>, spread |-> FALSE, body |-> "orderData"],
  delete_order |->
    [kind |-> "call", verb |-> "delete",
     checks |-> <<[fields |-> <<"orderId">>, test |-> "falsy", msg |-> "Order ID is required for deleting an order"]>>,
     pathIf |-> "", path |-> <<L("orders"), P("orderId")>>, pathElse |-> <<>>,
     query |-> <<[key |-> "force", from |-> "force", dflt |-> "false"]>>, spread |-> FALSE, body |-> ""],
  get_customers |->
    [kind |-> "call", verb |-> "get",
     checks |-> <<>>,
     pathIf |-> "", path |-> <<L("customers")>>, pathElse |-> <<>>,
     query |-> <<[key |-> "per_page", from |-> "perPage", dflt |-> "10"], [key |-> "page", from |-> "page", dflt |-> "1"]>>, spread |-> TRUE, body |-> ""],
  get_customer |->
    [kind |-> "call", verb |-> "get",
     checks |-> <<[fields |-> <<"customerId">>, test |-> "falsy", msg |-> "Customer ID is required"]>>,
     pathIf |-> "", path |-> <<L("customers"), P("customerId")>>, pathElse |-> <<>>,
     query |-> <<>>, spread |-> FALSE, body |-> ""],
  create_customer |->
    [kind |-> "call", verb |-> "post",
     checks |-> <<[fields |-> <<"customerData">>, test |-> "falsy", msg |-> "Customer data is required for creating a customer"]>>,
     pathIf |-> "", path |-> <<L("customers")>>, pathElse |-> <<>>,
     query |-> <<>>, spread |-> FALSE, body |-> "customerData"],
  update_customer |->
    [kind |-> "call", verb |-> "put",
     checks |-> <<[fields |-> <<"customerId">>, test |-> "falsy", msg |-> "Customer ID is required for updating a customer"], [fields |-> <<"customerData">>, test |-> "falsy", msg |-> "Customer data is required for updating a customer"]>>,
     pathIf |-> "", path |-> <<L("customers"), P("customerId")>>, pathElse |-> <<>>,
     query |-> <<>>, spread |-> FALSE, body |-> "customerData"],
  delete_customer |->
    [kind |-> "call", verb |-> "delete",
     checks |-> <<[fields |-> <<"customerId">>, test |-> "falsy", msg |-> "Customer ID is required for deleting a customer"]>>,
     pathIf |-> "", path |-> <<L("customers"), P("customerId")>>, pathElse |-> <<>>,
     query |-> <<[key |-> "force", from |-> "force", dflt |-> "false"]>>, spread |-> FALSE, body |-> ""],
  get_sales_report |->
    [kind |-> "call", verb |-> "get",
     checks |-> <<>>,
     pathIf |-> "", path |-> <<L("reports"), L("sales")>>, pathElse |-> <<>>,
     query |-> <<[key |-> "period", from |-> "period", dflt |-> "month"], [key |-> "date_min", from |-> "dateMin", dflt |-> ""], [key |-> "date_max", from |-> "dateMax", dflt |-> ""]>>, spread |-> TRUE, body |-> ""],
  get_products_report |->
    [kind |-> "call", verb |-> "get",
     checks |-> <<>>,
     pathIf |-> "", path |-> <<L("reports"), L("products")>>, pathElse |-> <<>>,
     query |-> <<[key |-> "period", from |-> "period", dflt |-> "month"], [key |-> "date_min", from |-> "dateMin", dflt |-> ""], [key |-> "date_max", from |-> "dateMax", dflt |-> ""], [key |-> "per_page", from |-> "perPage", dflt |-> "10"], [key |-> "page", from |-> "page", dflt |-> "1"]>>, spread |-> TRUE, body |-> ""],
  get_orders_report |->
    [kind |-> "call", verb |-> "get",
     checks |-> <<>>,
     pathIf |-> "", path |-> <<L("reports"), L("orders")>>, pathElse |-> <<>>,
     query |-> <<[key |-> "period", from |-> "period", dflt |-> "month"], [key |-> "date_min", from |-> "dateMin", dflt |-> ""], [key |-> "date_max", from |-> "dateMax", dflt |-> ""], [key |-> "per_page", from |-> "perPage", dflt |-> "10"], [key |-> "page", from |-> "page", dflt |-> "1"]>>, spread |-> TRUE, body |-> ""],
  get_categories_report |->
    [kind |-> "call", verb |-> "get",
     checks |-> <<>>,
     pathIf |-> "", path |-> <<L("reports"), L("categories")>>, pathElse |-> <<>>,
     query |-> <<[key |-> "per_page", from |-> "perPage", dflt |-> "10"], [key |-> "page", from |-> "page", dflt |-> "1"]>>, spread |-> TRUE, body |-> ""],
  get_customers_report |->
    [kind |-> "call", verb |-> "get",
     checks |-> <<>>,
     pathIf |-> "", path |-> <<L("reports"), L("customers")>>, pathElse |-> <<>>,
     query |-> <<[key |-> "per_page", from |-> "perPage", dflt |-> "10"], [key |-> "page", from |-> "page", dflt |-> "1"]>>, spread |-> TRUE, body |-> ""],
  get_stock_report |->
    [kind |-> "call", verb |-> "get",
     checks |-> <<>>,
     pathIf |-> "", path |-> <<L("reports"), L("stock")>>, pathElse |-> <<>>,
     query |-> <<[key |-> "per_page", from |-> "perPage", dflt |-> "10"], [key |-> "page", from |-> "page", dflt |-> "1"]>>, spread |-> TRUE, body |-> ""],
  get_coupons_report |->
    [kind |-> "call", verb |-> "get",
     checks |-> <<>>,
     pathIf |-> "", path |-> <<L("reports"), L("coupons")>>, pathElse |-> <<>>,
     query |-> <<[key |-> "period", from |-> "period", dflt |-> "month"], [key |-> "date_min", from |-> "dateMin", dflt |-> ""], [key |-> "date_max", from |-> "dateMax", dflt |-> ""], [key |-> "per_page", from |-> "perPage", dflt |-> "10"], [key |-> "page", from |-> "page", dflt |-> "1"]>>, spread |-> TRUE, body |-> ""],
  get_taxes_report |->
    [kind |-> "call", verb |-> "get",
     checks |-> <<>>,
     pathIf |-> "", path |-> <<L("reports"), L("taxes")>>, pathElse |-> <<>>,
     query |-> <<[key |-> "period", from |-> "period", dflt |-> "month"], [key |-> "date_min", from |-> "dateMin", dflt |-> ""], [key |-> "date_max", from |-> "dateMax", dflt |-> ""], [key |-> "per_page", from |-> "perPage", dflt |-> "10"], [key |-> "page", from |-> "page", dflt |-> "1"]>>, spread |-> TRUE, body |-> ""],
  get_shipping_zones |->
    [kind |-> "call", verb |-> "get",
     checks |-> <<>>,
     pathIf |-> "", path |-> <<L("shipping"), L("zones")>>, pathElse |-> <<>>,
     query |-> <<>>, spread |-> TRUE, body |-> ""],
  get_shipping_zone |->
    [kind |-> "call", verb |-> "get",
     checks |-> <<[fields |-> <<"zoneId">>, test |-> "falsy", msg |-> "Zone ID is required"]>>,
     pathIf |-> "", path |-> <<L("shipping"), L("zones"), P("zoneId")>>, pathElse |-> <<>>,
     query |-> <<>>, spread |-> FALSE, body |-> ""],
  create_shipping_zone |->
    [kind |-> "call", verb |-> "post",
     checks |-> <<[fields |-> <<"zoneData">>, test |-> "falsy", msg |-> "Zone data is required for creating a shipping zone"]>>,
     pathIf |-> "", path |-> <<L("shipping"), L("zones")>>, pathElse |-> <<>>,
     query |-> <<>>, spread |-> FALSE, body |-> "zoneData"],
  update_shipping_zone |->
    [kind |-> "call", verb |-> "put",
     checks |-> <<[fields |-> <<"zoneId">>, test |-> "falsy", msg |-> "Zone ID is required for updating a shipping zone"], [fields |-> <<"zoneData">>, test |-> "falsy", msg |-> "Zone data is required for updating a shipping zone"]>>,
     pathIf |-> "", path |-> <<L("shipping"), L("zones"), P("zoneId")>>, pathElse |-> <<>>,
     query |-> <<>>, spread |-> FALSE, body |-> "zoneData"],
  delete_shipping_zone |->
    [kind |-> "call", verb |-> "delete",
     checks |-> <<[fields |-> <<"zoneId">>, test |-> "falsy", msg |-> "Zone ID is required for deleting a shipping zone"]>>,
     pathIf |-> "", path |-> <<L("shipping"), L("zones"), P("zoneId")>>, pathElse |-> <<>>,
     query |-> <<[key |-> "force", from |-> "force", dflt |-> "true"]>>, spread |-> FALSE, body |-> ""],
  get_shipping_methods |->
    [kind |-> "call", verb |-> "get",
     checks |-> <<>>,
     pathIf |-> "", path |-> <<L("shipping_methods")>>, pathElse |-> <<>>,
     query |-> <<>>, spread |-> FALSE, body |-> ""],
  get_shipping_zone_methods |->
    [kind |-> "call", verb |-> "get",
     checks |-> <<[fields |-> <<"zoneId">>, test |-> "falsy", msg |-> "Zone ID is required"]>>,
     pathIf |-> "", path |-> <<L("shipping"), L("zones"), P("zoneId"), L("methods")>>, pathElse |-> <<>>,
     query |-> <<>>, spread |-> FALSE, body |-> ""],
  create_shipping_zone_method |->
    [kind |-> "call", verb |-> "post",
     checks |-> <<[fields |-> <<"zoneId">>, test |-> "falsy", msg |-> "Zone ID is required"], [fields |-> <<"methodData">>, test |-> "falsy", msg |-> "Method data is required for creating a shipping method"]>>,
     pathIf |-> "", path |-> <<L("shipping"), L("zones"), P("zoneId"), L("methods")>>, pathElse |-> <<>>,
     query |-> <<>>, spread |-> FALSE, body |-> "methodData"],
  update_shipping_zone_method |->
    [kind |-> "call", verb |-> "put",
     checks |-> <<[fields |-> <<"zoneId">>, test |-> "falsy", msg |-> "Zone ID is required"], [fields |-> <<"instanceId">>, test |-> "falsy", msg |-> "Method instance ID is required"], [fields |-> <<"methodData">>, test |-> "falsy", msg |-> "Method data is required for updating a shipping method"]>>,
     pathIf |-> "", path |-> <<L("shipping"), L("zones"), P("zoneId"), L("methods"), P("instanceId")>>, pathElse |-> <<>>,
     query |-> <<>>, spread |-> FALSE, body |-> "methodData"],
  delete_shipping_zone_method |->
    [kind |-> "call", verb |-> "delete",
     checks |-> <<[fields |-> <<"zoneId">>, test |-> "falsy", msg |-> "Zone ID is required"], [fields |-> <<"instanceId">>, test |-> "falsy", msg |-> "Method instance ID is required"]>>,
     pathIf |-> "", path |-> <<L("shipping"), L("zones"), P("zoneId"), L("methods"), P("instanceId")>>, pathElse |-> <<>>,
     query |-> <<[key |-> "force", from |-> "force", dflt |-> "true"]>>, spread |-> FALSE, body |-> ""],
  get_shipping_zone_locations |->
    [kind |-> "call", verb |-> "get",
     checks |-> <<[fields |-> <<"zoneId">>, test |-> "falsy", msg |-> "Zone ID is required"]>>,
     pathIf |-> "", path |-> <<L("shipping"), L("zones"), P("zoneId"), L("locations")>>, pathElse |-> <<>>,
     query |-> <<>>, spread |-> FALSE, body |-> ""],
  update_shipping_zone_locations |->
    [kind |-> "call", verb |-> "put",
     checks |-> <<[fields |-> <<"zoneId">>, test |-> "falsy", msg |-> "Zone ID is required"], [fields |-> <<"locations">>, test |-> "falsy", msg |-> "Locations data is required"]>>,
     pathIf |-> "", path |-> <<L("shipping"), L("zones"), P("zoneId"), L("locations")>>, pathElse |-> <<>>,
     query |-> <<>>, spread |-> FALSE, body |-> "locations"],
  get_tax_classes |->
    [kind |-> "call", verb |-> "get",
     checks |-> <<>>,
     pathIf |-> "", path |-> <<L("taxes"), L("classes")>>, pathElse |-> <<>>,
     query |-> <<>>, spread |-> FALSE, body |-> ""],
  create_tax_class |->
    [kind |-> "call", verb |-> "post",
     checks |-> <<[fields |-> <<"taxClassData">>, test |-> "falsy", msg |-> "Tax class data is required"]>>,
     pathIf |-> "", path |-> <<L("taxes"), L("classes")>>, pathElse |-> <<>>,
     query |-> <<>>, spread |-> FALSE, body |-> "taxClassData"],
  delete_tax_class |->
    [kind |-> "call", verb |-> "delete",
     checks |-> <<[fields |-> <<"slug">>, test |-> "falsy", msg |-> "Tax class slug is required"]>>,
     pathIf |-> "", path |-> <<L("taxes"), L("classes"), P("slug")>>, pathElse |-> <<>>,
     query |-> <<[key |-> "force", from |-> "force", dflt |-> "true"]>>, spread |-> FALSE, body |-> ""],
  get_tax_rates |->
    [kind |-> "call", verb |-> "get",
     checks |-> <<>>,
     pathIf |-> "", path |-> <<L("taxes")>>, pathElse |-> <<>>,
     query |-> <<[key |-> "per_page", from |-> "perPage", dflt |-> "10"], [key |-> "page", from |-> "page", dflt |-> "1"]>>, spread |-> TRUE, body |-> ""],
  get_tax_rate |->
    [kind |-> "call", verb |-> "get",
     checks |-> <<[fields |-> <<"rateId">>, test |-> "falsy", msg |-> "Tax rate ID is required"]>>,
     pathIf |-> "", path |-> <<L("taxes"), P("rateId")>>, pathElse |-> <<>>,
     query |-> <<>>, spread |-> FALSE, body |-> ""],
  create_tax_rate |->
    [kind |-> "call", verb |-> "post",
     checks |-> <<[fields |-> <<"taxRateData">>, test |-> "falsy", msg |-> "Tax rate data is required"]>>,
     pathIf |-> "", path |-> <<L("taxes")>>, pathElse |-> <<>>,
     query |-> <<>>, spread |-> FALSE, body |-> "taxRateData"],
  update_tax_rate |->
    [kind |-> "call", verb |-> "put",
     checks |-> <<[fields |-> <<"rateId">>, test |-> "falsy", msg |-> "Tax rate ID is required"], [fields |-> <<"taxRateData">>, test |-> "falsy", msg |-> "Tax rate data is required"]>>,
     pathIf |-> "", path |-> <<L("taxes"), P("rateId")>>, pathElse |-> <<>>,
     query |-> <<>>, spread |-> FALSE, body |-> "taxRateData"],
  delete_tax_rate |->
    [kind |-> "call", verb |-> "delete",
     checks |-> <<[fields |-> <<"rateId">>, test |-> "falsy", msg |-> "Tax rate ID is required"]>>,
     pathIf |-> "", path |-> <<L("taxes"), P("rateId")>>, pathElse |-> <<>>,
     query |-> <<[key |-> "force", from |-> "force", dflt |-> "true"]>>, spread |-> FALSE, body |-> ""],
  get_coupons |->
    [kind |-> "call", verb |-> "get",
     checks |-> <<>>,
     pathIf |-> "", path |-> <<L("coupons")>>, pathElse |-> <<>>,
     query |-> <<[key |-> "per_page", from |-> "perPage", dflt |-> "10"], [key |-> "page", from |-> "page", dflt |-> "1"]>>, spread |-> TRUE, body |-> ""],
  get_coupon |->
    [kind |-> "call", verb |-> "get",
     checks |-> <<[fields |-> <<"couponId">>, test |-> "falsy", msg |-> "Coupon ID is required"]>>,
     pathIf |-> "", path |-> <<L("coupons"), P("couponId")>>, pathElse |-> <<>>,
     query |-> <<>>, spread |-> FALSE, body |-> ""],
  create_coupon |->
    [kind |-> "call", verb |-> "post",
     checks |-> <<[fields |-> <<"couponData">>, test |-> "falsy", msg |-> "Coupon data is required"]>>,
     pathIf |-> "", path |-> <<L("coupons")>>, pathElse |-> <<>>,
     query |-> <<>>, spread |-> FALSE, body |-> "couponData"],
  update_coupon |->
    [kind |-> "call", verb |-> "put",
     checks |-> <<[fields |-> <<"couponId">>, test |-> "falsy", msg |-> "Coupon ID is required"], [fields |-> <<"couponData">>, test |-> "falsy", msg |-> "Coupon data is required"]>>,
     pathIf |-> "", path |-> <<L("coupons"), P("couponId")>>, pathElse |-> <<>>,
     query |-> <<>>, spread |-> FALSE, body |-> "couponData"],
  delete_coupon |->
    [kind |-> "call", verb |-> "delete",
     checks |-> <<[fields |-> <<"couponId">>, test |-> "falsy", msg |-> "Coupon ID is required"]>>,
     pathIf |-> "", path |-> <<L("coupons"), P("couponId")>>, pathElse |-> <<>>,
     query |-> <<[key |-> "force", from |-> "force", dflt |-> "true"]>>, spread |-> FALSE, body |-> ""],
  get_order_notes |->
    [kind |-> "call", verb |-> "get",
     checks |-> <<[fields |-> <<"orderId">>, test |-> "falsy", msg |-> "Order ID is required"]>>,
     pathIf |-> "", path |-> <<L("orders"), P("orderId"), L("notes")>>, pathElse |-> <<>>,
     query |-> <<[key |-> "per_page", from |-> "perPage", dflt |-> "10"], [key |-> "page", from |-> "page", dflt |-> "1"]>>, spread |-> TRUE, body |-> ""],
  get_order_note |->
    [kind |-> "call", verb |-> "get",
     checks |-> <<[fields |-> <<"orderId">>, test |-> "falsy", msg |-> "Order ID is required"], [fields |-> <<"noteId">>, test |-> "falsy", msg |-> "Note ID is required"]>>,
     pathIf |-> "", path |-> <<L("orders"), P("orderId"), L("notes"), P("noteId")>>, pathElse |-> <<>>,
     query |-> <<>>, spread |-> FALSE, body |-> ""],
  create_order_note |->
    [kind |-> "call", verb |-> "post",
     checks |-> <<[fields |-> <<"orderId">>, test |-> "falsy", msg |-> "Order ID is required"], [fields |-> <<"noteData">>, test |-> "falsy", msg |-> "Note data is required"]>>,
     pathIf |-> "", path |-> <<L("orders"), P("orderId"), L("notes")>>, pathElse |-> <<>>,
     query |-> <<>>, spread |-> FALSE, body |-> "noteData"],
  delete_order_note |->
    [kind |-> "call", verb |-> "delete",
     checks |-> <<[fields |-> <<"orderId">>, test |-> "falsy", msg |-> "Order ID is required"], [fields |-> <<"noteId">>, test |-> "falsy", msg |-> "Note ID is required"]>>,
     pathIf |-> "", path |-> <<L("orders"), P("orderId"), L("notes"), P("noteId")>>, pathElse |-> <<>>,
     query |-> <<[key |-> "force", from |-> "force", dflt |-> "true"]>>, spread |-> FALSE, body |-> ""],
  get_order_refunds |->
    [kind |-> "call", verb |-> "get",
     checks |-> <<[fields |-> <<"orderId">>, test |-> "falsy", msg |-> "Order ID is required"]>>,
     pathIf |-> "", path |-> <<L("orders"), P("orderId"), L("refunds")>>, pathElse |-> <<>>,
     query |-> <<[key |-> "per_page", from |-> "perPage", dflt |-> "10"], [key |-> "page", from |-> "page", dflt |-> "1"]>>, spread |-> TRUE, body |-> ""],
  get_order_refund |->
    [kind |-> "call", verb |-> "get",
     checks |-> <<[fields |-> <<"orderId">>, test |-> "falsy", msg |-> "Order ID is required"], [fields |-> <<"refundId">>, test |-> "falsy", msg |-> "Refund ID is required"]>>,
     pathIf |-> "", path |-> <<L("orders"), P("orderId"), L("refunds"), P("refundId")>>, pathElse |-> <<>>,
     query |-> <<>>, spread |-> FALSE, body |-> ""],
  create_order_refund |->
    [kind |-> "call", verb |-> "post",
     checks |-> <<[fields |-> <<"orderId">>, test |-> "falsy", msg |-> "Order ID is required"], [fields |-> <<"refundData">>, test |-> "falsy", msg |-> "Refund data is required"]>>,
     pathIf |-> "", path |-> <<L("orders"), P("orderId"), L("refunds")>>, pathElse |-> <<>>,
     query |-> <<>>, spread |-> FALSE, body |-> "refundData"],
  delete_order_refund |->
    [kind |-> "call", verb |-> "delete",
     checks |-> <<[fields |-> <<"orderId">>, test |-> "falsy", msg |-> "Order ID is required"], [fields |-> <<"refundId">>, test |-> "falsy", msg |-> "Refund ID is required"]>>,
     pathIf |-> "", path |-> <<L("orders"), P("orderId"), L("refunds"), P("refundId")>>, pathElse |-> <<>>,
     query |-> <<[key |-> "force", from |-> "force", dflt |-> "true"]>>, spread |-> FALSE, body |-> ""],
  get_product_variations |->
    [kind |-> "call", verb |-> "get",
     checks |-> <<[fields |-> <<"productId">>, test |-> "falsy", msg |-> "Product ID is required"]>>,
     pathIf |-> "", path |-> <<L("products"), P("productId"), L("variations")>>, pathElse |-> <<>>,
     query |-> <<[key |-> "per_page", from |-> "perPage", dflt |-> "10"], [key |-> "page", from |-> "page", dflt |-> "1"]>>, spread |-> TRUE, body |-> ""],
  get_product_variation |->
    [kind |-> "call", verb |-> "get",
     checks |-> <<[fields |-> <<"productId">>, test |-> "falsy", msg |-> "Product ID is required"], [fields |-> <<"variationId">>, test |-> "falsy", msg |-> "Variation ID is required"]>>,
     pathIf |-> "", path |-> <<L("products"), P("productId"), L("variations"), P("variationId")>>, pathElse |-> <<>>,
     query |-> <<>>, spread |-> FALSE, body |-> ""],
  create_product_variation |->
    [kind |-> "call", verb |-> "post",
     checks |-> <<[fields |-> <<"productId">>, test |-> "falsy", msg |-> "Product ID is required"], [fields |-> <<"variationData">>, test |-> "falsy", msg |-> "Variation data is required"]>>,
     pathIf |-> "", path |-> <<L("products"), P("productId"), L("variations")>>, pathElse |-> <<>>,
     query |-> <<>>, spread |-> FALSE, body |-> "variationData"],
  update_product_variation |->
    [kind |-> "call", verb |-> "put",
     checks |-> <<[fields |-> <<"productId">>, test |-> "falsy", msg |-> "Product ID is required"], [fields |-> <<"variationId">>, test |-> "falsy", msg |-> "Variation ID is required"], [fields |-> <<"variationData">>, test |-> "falsy", msg |-> "Variation data is required"]>>,
     pathIf |-> "", path |-> <<L("products"), P("productId"), L("variations"), P("variationId")>>, pathElse |-> <<>>,
     query |-> <<>>, spread |-> FALSE, body |-> "variationData"],
  delete_product_variation |->
    [kind |-> "call", verb |-> "delete",
     checks |-> <<[fields |-> <<"productId">>, test |-> "falsy", msg |-> "Product ID is required"], [fields |-> <<"variationId">>, test |-> "falsy", msg |-> "Variation ID is required"]>>,
     pathIf |-> "", path |-> <<L("products"), P("productId"), L("variations"), P("variationId")>>, pathElse |-> <<>>,
     query |-> <<[key |-> "force", from |-> "force", dflt |-> "true"]>>, spread |-> FALSE, body |-> ""],
  get_product_attributes |->
    [kind |-> "call", verb |-> "get",
     checks |-> <<>>,
     pathIf |-> "", path |-> <<L("products"), L("attributes")>>, pathElse |-> <<>>,
     query |-> <<[key |-> "per_page", from |-> "perPage", dflt |-> "10"], [key |-> "page", from |-> "page", dflt |-> "1"]>>, spread |-> TRUE, body |-> ""],
  get_product_attribute |->
    [kind |-> "call", verb |-> "get",
     checks |-> <<[fields |-> <<"attributeId">>, test |-> "falsy", msg |-> "Attribute ID is required"]>>,
     pathIf |-> "", path |-> <<L("products"), L("attributes"), P("attributeId")>>, pathElse |-> <<>>,
     query |-> <<>>, spread |-> FALSE, body |-> ""],
  create_product_attribute |->
    [kind |-> "call", verb |-> "post",
     checks |-> <<[fields |-> <<"attributeData">>, test |-> "falsy", msg |-> "Attribute data is required"]>>,
     pathIf |-> "", path |-> <<L("products"), L("attributes")>>, pathElse |-> <<>>,
     query |-> <<>>, spread |-> FALSE, body |-> "attributeData"],
  update_product_attribute |->
    [kind |-> "call", verb |-> "put",
     checks |-> <<[fields |-> <<"attributeId">>, test |-> "falsy", msg |-> "Attribute ID is required"], [fields |-> <<"attributeData">>, test |-> "falsy", msg |-> "Attribute data is required"]>>,
     pathIf |-> "", path |-> <<L("products"), L("attributes"), P("attributeId")>>, pathElse |-> <<>>,
     query |-> <<>>, spread |-> FALSE, body |-> "attributeData"],
  delete_product_attribute |->
    [kind |-> "call", verb |-> "delete",
     checks |-> <<[fields |-> <<"attributeId">>, test |-> "falsy", msg |-> "Attribute ID is required"]>>,
     pathIf |-> "", path |-> <<L("products"), L("attributes"), P("attributeId")>>, pathElse |-> <<>>,
     query |-> <<[key |-> "force", from |-> "force", dflt |-> "true"]>>, spread |-> FALSE, body |-> ""],
  get_attribute_terms |->
    [kind |-> "call", verb |-> "get",
     checks |-> <<[fields |-> <<"attributeId">>, test |-> "falsy", msg |-> "Attribute ID is required"]>>,
     pathIf |-> "", path |-> <<L("products"), L("attributes"), P("attributeId"), L("terms")>>, pathElse |-> <<>>,
     query |-> <<[key |-> "per_page", from |-> "perPage", dflt |-> "10"], [key |-> "page", from |-> "page", dflt |-> "1"]>>, spread |-> TRUE, body |-> ""],
  get_attribute_term |->
    [kind |-> "call", verb |-> "get",
     checks |-> <<[fields |-> <<"attributeId">>, test |-> "falsy", msg |-> "Attribute ID is required"], [fields |-> <<"termId">>, test |-> "falsy", msg |-> "Term ID is required"]>>,
     pathIf |-> "", path |-> <<L("products"), L("attributes"), P("attributeId"), L("terms"), P("termId")>>, pathElse |-> <<>>,
     query |-> <<>>, spread |-> FALSE, body |-> ""],
  create_attribute_term |->
    [kind |-> "call", verb |-> "post",
     checks |-> <<[fields |-> <<"attributeId">>, test |-> "falsy", msg |-> "Attribute ID is required"], [fields |-> <<"termData">>, test |-> "falsy", msg |-> "Term data is required"]>>,
     pathIf |-> "", path |-> <<L("products"), L("attributes"), P("attributeId"), L("terms")>>, pathElse |-> <<>>,
     query |-> <<>>, spread |-> FALSE, body |-> "termData"],
  update_attribute_term |->
    [kind |-> "call", verb |-> "put",
     checks |-> <<[fields |-> <<"attributeId">>, test |-> "falsy", msg |-> "Attribute ID is required"], [fields |-> <<"termId">>, test |-> "falsy", msg |-> "Term ID is required"], [fields |-> <<"termData">>, test |-> "falsy", msg |-> "Term data is required"]>>,
     pathIf |-> "", path |-> <<L("products"), L("attributes"), P("attributeId"), L("terms"), P("termId")>>, pathElse |-> <<>>,
     query |-> <<>>, spread |-> FALSE, body |-> "termData"],
  delete_attribute_term |->
    [kind |-> "call", verb |-> "delete",
     checks |-> <<[fields |-> <<"attributeId">>, test |-> "falsy", msg |-> "Attribute ID is required"], [fields |-> <<"termId">>, test |-> "falsy", msg |-> "Term ID is required"]>>,
     pathIf |-> "", path |-> <<L("products"), L("attributes"), P("attributeId"), L("terms"), P("termId")>>, pathElse |-> <<>>,
     query |-> <<[key |-> "force", from |-> "force", dflt |-> "true"]>>, spread |-> FALSE, body |-> ""],
  get_product_categories |->
    [kind |-> "call", verb |-> "get",
     checks |-> <<>>,
     pathIf |-> "", path |-> <<L("products"), L("categories")>>, pathElse |-> <<>>,
     query |-> <<[key |-> "per_page", from |-> "perPage", dflt |-> "10"], [key |-> "page", from |-> "page", dflt |-> "1"]>>, spread |-> TRUE, body |-> ""],
  get_product_category |->
    [kind |-> "call", verb |-> "get",
     checks |-> <<[fields |-> <<"categoryId">>, test |-> "falsy", msg |-> "Category ID is required"]>>,
     pathIf |-> "", path |-> <<L("products"), L("categories"), P("categoryId")>>, pathElse |-> <<>>,
     query |-> <<>>, spread |-> FALSE, body |-> ""],
  create_product_category |->
    [kind |-> "call", verb |-> "post",
     checks |-> <<[fields |-> <<"categoryData">>, test |-> "falsy", msg |-> "Category data is required"]>>,
     pathIf |-> "", path |-> <<L("products"), L("categories")>>, pathElse |-> <<>>,
     query |-> <<>>, spread |-> FALSE, body |-> "categoryData"],
  update_product_category |->
    [kind |-> "call", verb |-> "put",
     checks |-> <<[fields |-> <<"categoryId">>, test |-> "falsy", msg |-> "Category ID is required"], [fields |-> <<"categoryData">>, test |-> "falsy", msg |-> "Category data is required"]>>,
     pathIf |-> "", path |-> <<L("products"), L("categories"), P("categoryId")>>, pathElse |-> <<>>,
     query |-> <<>>, spread |-> FALSE, body |-> "categoryData"],
  delete_product_category |->
    [kind |-> "call", verb |-> "delete",
     checks |-> <<[fields |-> <<"categoryId">>, test |-> "falsy", msg |-> "Category ID is required"]>>,
     pathIf |-> "", path |-> <<L("products"), L("categories"), P("categoryId")>>, pathElse |-> <<>>,
     query |-> <<[key |-> "force", from |-> "force", dflt |-> "true"]>>, spread |-> FALSE, body |-> ""],
  get_product_tags |->
    [kind |-> "call", verb |-> "get",
     checks |-> <<>>,
     pathIf |-> "", path |-> <<L("products"), L("tags")>>, pathElse |-> <<>>,
     query |-> <<[key |-> "per_page", from |-> "perPage", dflt |-> "10"], [key |-> "page", from |-> "page", dflt |-> "1"]>>, spread |-> TRUE, body |-> ""],
  get_product_tag |->
    [kind |-> "call", verb |-> "get",
     checks |-> <<[fields |-> <<"tagId">>, test |-> "falsy", msg |-> "Tag ID is required"]>>,
     pathIf |-> "", path |-> <<L("products"), L("tags"), P("tagId")>>, pathElse |-> <<>>,
     query |-> <<>>, spread |-> FALSE, body |-> ""],
  create_product_tag |->
    [kind |-> "call", verb |-> "post",
     checks |-> <<[fields |-> <<"tagData">>, test |-> "falsy", msg |-> "Tag data is required"]>>,
     pathIf |-> "", path |-> <<L("products"), L("tags")>>, pathElse |-> <<>>,
     query |-> <<>>, spread |-> FALSE, body |-> "tagData"],
  update_product_tag |->
    [kind |-> "call", verb |-> "put",
     checks |-> <<[fields |-> <<"tagId">>, test |-> "falsy", msg |-> "Tag ID is required"], [fields |-> <<"tagData">>, test |-> "falsy", msg |-> "Tag data is required"]>>,
     pathIf |-> "", path |-> <<L("products"), L("tags"), P("tagId")>>, pathElse |-> <<>>,
     query |-> <<>>, spread |-> FALSE, body |-> "tagData"],
  delete_product_tag |->
    [kind |-> "call", verb |-> "delete",
     checks |-> <<[fields |-> <<"tagId">>, test |-> "falsy", msg |-> "Tag ID is required"]>>,
     pathIf |-> "", path |-> <<L("products"), L("tags"), P("tagId")>>, pathElse |-> <<>>,
     query |-> <<[key |-> "force", from |-> "force", dflt |-> "true"]>>, spread |-> FALSE, body |-> ""],
  get_product_reviews |->
    [kind |-> "call", verb |-> "get",
     checks |-> <<>>,
     pathIf |-> "productId", path |-> <<L("products"), P("productId"), L("reviews")>>, pathElse |-> <<L("products"), L("reviews")>>,
     query |-> <<[key |-> "per_page", from |-> "perPage", dflt |-> "10"], [key |-> "page", from |-> "page", dflt |-> "1"]>>, spread |-> TRUE, body |-> ""],
  get_product_review |->
    [kind |-> "call", verb |-> "get",
     checks |-> <<[fields |-> <<"reviewId">>, test |-> "falsy", msg |-> "Review ID is required"]>>,
     pathIf |-> "productId", path |-> <<L("products"), P("productId"), L("reviews"), P("reviewId")>>, pathElse |-> <<L("products"), L("reviews"), P("reviewId")>>,
     query |-> <<>>, spread |-> FALSE, body |-> ""],
  create_product_review |->
    [kind |-> "call", verb |-> "post",
     checks |-> <<[fields |-> <<"productId">>, test |-> "falsy", msg |-> "Product ID is required"], [fields |-> <<"reviewData">>, test |-> "falsy", msg |-> "Review data is required"]>>,
     pathIf |-> "", path |-> <<L("products"), P("productId"), L("reviews")>>, pathElse |-> <<>>,
     query |-> <<>>, spread |-> FALSE, body |-> "reviewData"],
  update_product_review |->
    [kind |-> "call", verb |-> "put",
     checks |-> <<[fields |-> <<"reviewId">>, test |-> "falsy", msg |-> "Review ID is required"], [fields |-> <<"reviewData">>, test |-> "falsy", msg |-> "Review data is required"]>>,
     pathIf |-> "productId", path |-> <<L("products"), P("productId"), L("reviews"), P("reviewId")>>, pathElse |-> <<L("products"), L("reviews"), P("reviewId")>>,
     query |-> <<>>, spread |-> FALSE, body |-> "reviewData"],
  delete_product_review |->
    [kind |-> "call", verb |-> "delete",
     checks |-> <<[fields |-> <<"reviewId">>, test |-> "falsy", msg |-> "Review ID is required"]>>,
     pathIf |-> "productId", path |-> <<L("products"), P("productId"), L("reviews"), P("reviewId")>>, pathElse |-> <<L("products"), L("reviews"), P("reviewId")>>,
     query |-> <<[key |-> "force", from |-> "force", dflt |-> "true"]>>, spread |-> FALSE, body |-> ""],
  get_payment_gateways |->
    [kind |-> "call", verb |-> "get",
     checks |-> <<>>,
     pathIf |-> "", path |-> <<L("payment_gateways")>>, pathElse |-> <<>>,
     query |-> <<>>, spread |-> FALSE, body |-> ""],
  get_payment_gateway |->
    [kind |-> "call", verb |-> "get",
     checks |-> <<[fields |-> <<"gatewayId">>, test |-> "falsy", msg |-> "Gateway ID is required"]>>,
     pathIf |-> "", path |-> <<L("payment_gateways"), P("gatewayId")>>, pathElse |-> <<>>,
     query |-> <<>>, spread |-> FALSE, body |-> ""],
  update_payment_gateway |->
    [kind |-> "call", verb |-> "put",
     checks |-> <<[fields |-> <<"gatewayId">>, test |-> "falsy", msg |-> "Gateway ID is required"], [fields |-> <<"gatewayData">>, test |-> "falsy", msg |-> "Gateway data is required"]>>,
     pathIf |-> "", path |-> <<L("payment_gateways"), P("gatewayId")>>, pathElse |-> <<>>,
     query |-> <<>>, spread |-> FALSE, body |-> "gatewayData"],
  get_settings |->
    [kind |-> "call", verb |-> "get",
     checks |-> <<>>,
     pathIf |-> "", path |-> <<L("settings")>>, pathElse |-> <<>>,
     query |-> <<>>, spread |-> FALSE, body |-> ""],
  get_setting_options |->
    [kind |-> "call", verb |-> "get",
     checks |-> <<[fields |-> <<"group">>, test |-> "falsy", msg |-> "Settings group is required"]>>,
     pathIf |-> "", path |-> <<L("settings"), P("group")>>, pathElse |-> <<>>,
     query |-> <<>>, spread |-> FALSE, body |-> ""],
  update_setting_option |->
    [kind |-> "call", verb |-> "put",
     checks |-> <<[fields |-> <<"group">>, test |-> "falsy", msg |-> "Settings group is required"], [fields |-> <<"id">>, test |-> "falsy", msg |-> "Setting ID is required"], [fields |-> <<"settingData">>, test |-> "falsy", msg |-> "Setting data is required"]>>,
     pathIf |-> "", path |-> <<L("settings"), P("group"), P("id")>>, pathElse |-> <<>>,
     query |-> <<>>, spread |-> FALSE, body |-> "settingData"],
  get_system_status |->
    [kind |-> "call", verb |-> "get",
     checks |-> <<>>,
     pathIf |-> "", path |-> <<L("system_status")>>, pathElse |-> <<>>,
     query |-> <<>>, spread |-> FALSE, body |-> ""],
  get_system_status_tools |->
    [kind |-> "call", verb |-> "get",
     checks |-> <<>>,
     pathIf |-> "", path |-> <<L("system_status"), L("tools")>>, pathElse |-> <<>>,
     query |-> <<>>, spread |-> FALSE, body |-> ""],
  run_system_status_tool |->
    [kind |-> "call", verb |-> "put",
     checks |-> <<[fields |-> <<"toolId">>, test |-> "falsy", msg |-> "Tool ID is required"]>>,
     pathIf |-> "", path |-> <<L("system_status"), L("tools"), P("toolId")>>, pathElse |-> <<>>,
     query |-> <<>>, spread |-> FALSE, body |-> ""],
  get_data |->
    [kind |-> "call", verb |-> "get",
     checks |-> <<>>,
     pathIf |-> "", path |-> <<L("data")>>, pathElse |-> <<>>,
     query |-> <<>>, spread |-> FALSE, body |-> ""],
  get_continents |->
    [kind |-> "call", verb |-> "get",
     checks |-> <<>>,
     pathIf |-> "", path |-> <<L("data"), L("continents")>>, pathElse |-> <<>>,
     query |-> <<>>, spread |-> FALSE, body |-> ""],
  get_countries |->
    [kind |-> "call", verb |-> "get",
     checks |-> <<>>,
     pathIf |-> "", path |-> <<L("data"), L("countries")>>, pathElse |-> <<>>,
     query |-> <<>>, spread |-> FALSE, body |-> ""],
  get_currencies |->
    [kind |-> "call", verb |-> "get",
     checks |-> <<>>,
     pathIf |-> "", path |-> <<L("data"), L("currencies")>>, pathElse |-> <<>>,
     query |-> <<>>, spread |-> FALSE, body |-> ""],
  get_current_currency |->
    [kind |-> "call", verb |-> "get",
     checks |-> <<>>,
     pathIf |-> "", path |-> <<L("data"), L("currencies"), L("current")>>, pathElse |-> <<>>,
     query |-> <<>>, spread |-> FALSE, body |-> ""],
  get_post_meta |->
    [kind |-> "call", verb |-> "get",
     checks |-> <<[fields |-> <<"postId">>, test |-> "falsy", msg |-> "Post ID is required"]>>,
     pathIf |-> "metaKey", path |-> <<L("posts"), P("postId"), L("meta"), P("metaKey")>>, pathElse |-> <<L("posts"), P("postId"), L("meta")>>,
     query |-> <<>>, spread |-> FALSE, body |-> ""],
  create_post_meta |->
    [kind |-> "call", verb |-> "post",
     checks |-> <<[fields |-> <<"postId">>, test |-> "falsy", msg |-> "Post ID is required"], [fields |-> <<"metaKey">>, test |-> "falsy", msg |-> "Meta key is required"], [fields |-> <<"metaValue">>, test |-> "undefined", msg |-> "Meta value is required"]>>,
     pathIf |-> "", path |-> <<L("posts"), P("postId"), L("meta")>>, pathElse |-> <<>>,
     query |-> <<>>, spread |-> FALSE, body |-> "@create_post_meta"],
  update_post_meta |->
    [kind |-> "call", verb |-> "put",
     checks |-> <<[fields |-> <<"postId">>, test |-> "falsy", msg |-> "Post ID is required"], [fields |-> <<"metaId">>, test |-> "falsy", msg |-> "Meta ID is required"], [fields |-> <<"metaValue">>, test |-> "undefined", msg |-> "Meta value is required"]>>,
     pathIf |-> "", path |-> <<L("posts"), P("postId"), L("meta"), P("metaId")>>, pathElse |-> <<>>,
     query |-> <<>>, spread |-> FALSE, body |-> "@update_post_meta"],
  delete_post_meta |->
    [kind |-> "call", verb |-> "delete",
     checks |-> <<[fields |-> <<"postId">>, test |-> "falsy", msg |-> "Post ID is required"], [fields |-> <<"metaId">>, test |-> "falsy", msg |-> "Meta ID is required"]>>,
     pathIf |-> "", path |-> <<L("posts"), P("postId"), L("meta"), P("metaId")>>, pathElse |-> <<>>,
     query |-> <<[key |-> "force", from |-> "force", dflt |-> "true"]>>, spread |-> FALSE, body |-> ""],
  get_product_meta |->
    [kind |-> "metaGet", verb |-> "get",
     checks |-> <<[fields |-> <<"productId">>, test |-> "falsy", msg |-> "Product ID is required"]>>,
     pathIf |-> "", path |-> <<L("products"), P("productId")>>, pathElse |-> <<>>,
     query |-> <<>>, spread |-> FALSE, body |-> ""],
  create_product_meta |->
    [kind |-> "metaSet", verb |-> "get",
     checks |-> <<[fields |-> <<"productId">>, test |-> "falsy", msg |-> "Product ID is required"], [fields |-> <<"metaKey">>, test |-> "falsy", msg |-> "Meta key is required"], [fields |-> <<"metaValue">>, test |-> "undefined", msg |-> "Meta value is required"]>>,
     pathIf |-> "", path |-> <<L("products"), P("productId")>>, pathElse |-> <<>>,
     query |-> <<>>, spread |-> FALSE, body |-> ""],
  update_product_meta |->
    [kind |-> "metaSet", verb |-> "get",
     checks |-> <<[fields |-> <<"productId">>, test |-> "falsy", msg |-> "Product ID is required"], [fields |-> <<"metaKey">>, test |-> "falsy", msg |-> "Meta key is required"], [fields |-> <<"metaValue">>, test |-> "undefined", msg |-> "Meta value is required"]>>,
     pathIf |-> "", path |-> <<L("products"), P("productId")>>, pathElse |-> <<>>,
     query |-> <<>>, spread |-> FALSE, body |-> ""],
  delete_product_meta |->
    [kind |-> "metaDelete", verb |-> "get",
     checks |-> <<[fields |-> <<"productId">>, test |-> "falsy", msg |-> "Product ID is required"], [fields |-> <<"metaKey">>, test |-> "falsy", msg |-> "Meta key is required"]>>,
     pathIf |-> "", path |-> <<L("products"), P("productId")>>, pathElse |-> <<>>,
     query |-> <<>>, spread |-> FALSE, body |-> ""],
  get_order_meta |->
    [kind |-> "metaGet", verb |-> "get",
     checks |-> <<[fields |-> <<"orderId">>, test |-> "falsy", msg |-> "Order ID is required"]>>,
     pathIf |-> "", path |-> <<L("orders"), P("orderId")>>, pathElse |-> <<>>,
     query |-> <<>>, spread |-> FALSE, body |-> ""],
  create_order_meta |->
    [kind |-> "metaSet", verb |-> "get",
     checks |-> <<[fields |-> <<"orderId">>, test |-> "falsy", msg |-> "Order ID is required"], [fields |-> <<"metaKey">>, test |-> "falsy", msg |-> "Meta key is required"], [fields |-> <<"metaValue">>, test |-> "undefined", msg |-> "Meta value is required"]>>,
     pathIf |-> "", path |-> <<L("orders"), P("orderId")>>, pathElse |-> <<>>,
     query |-> <<>>, spread |-> FALSE, body |-> ""],
  update_order_meta |->
    [kind |-> "metaSet", verb |-> "get",
     checks |-> <<[fields |-> <<"orderId">>, test |-> "falsy", msg |-> "Order ID is required"], [fields |-> <<"metaKey">>, test |-> "falsy", msg |-> "Meta key is required"], [fields |-> <<"metaValue">>, test |-> "undefined", msg |-> "Meta value is required"]>>,
     pathIf |-> "", path |-> <<L("orders"), P("orderId")>>, pathElse |-> <<>>,
     query |-> <<>>, spread |-> FALSE, body |-> ""],
  delete_order_meta |->
    [kind |-> "metaDelete", verb |-> "get",
     checks |-> <<[fields |-> <<"orderId">>, test |-> "falsy", msg |-> "Order ID is required"], [fields |-> <<"metaKey">>, test |-> "falsy", msg |-> "Meta key is required"]>>,
     pathIf |-> "", path |-> <<L("orders"), P("orderId")>>, pathElse |-> <<>>,
     query |-> <<>>, spread |-> FALSE, body |-> ""],
  get_customer_meta |->
    [kind |-> "metaGet", verb |-> "get",
     checks |-> <<[fields |-> <<"customerId">>, test |-> "falsy", msg |-> "Customer ID is required"]>>,
     pathIf |-> "", path |-> <<L("customers"), P("customerId")>>, pathElse |-> <<>>,
     query |-> <<>>, spread |-> FALSE, body |-> ""],
  create_customer_meta |->
    [kind |-> "metaSet", verb |-> "get",
     checks |-> <<[fields |-> <<"customerId">>, test |-> "falsy", msg |-> "Customer ID is required"], [fields |-> <<"metaKey">>, test |-> "falsy", msg |-> "Meta key is required"], [fields |-> <<"metaValue">>, test |-> "undefined", msg |-> "Meta value is required"]>>,
     pathIf |-> "", path |-> <<L("customers"), P("customerId")>>, pathElse |-> <<>>,
     query |-> <<>>, spread |-> FALSE, body |-> ""],
  update_customer_meta |->
    [kind |-> "metaSet", verb |-> "get",
     checks |-> <<[fields |-> <<"customerId">>, test |-> "falsy", msg |-> "Customer ID is required"], [fields |-> <<"metaKey">>, test |-> "falsy", msg |-> "Meta key is required"], [fields |-> <<"metaValue">>, test |-> "undefined", msg |-> "Meta value is required"]>>,
     pathIf |-> "", path |-> <<L("customers"), P("customerId")>>, pathElse |-> <<>>,
     query |-> <<>>, spread |-> FALSE, body |-> ""],
  delete_customer_meta |->
    [kind |-> "metaDelete", verb |-> "get",
     checks |-> <<[fields |-> <<"customerId">>, test |-> "falsy", msg |-> "Customer ID is required"], [fields |-> <<"metaKey">>, test |-> "falsy", msg |-> "Meta key is required"]>>,
     pathIf |-> "", path |-> <<L("customers"), P("customerId")>>, pathElse |-> <<>>,
     query |-> <<>>, spread |-> FALSE, body |-> ""]
  ]

\* switch (method) of src/sse-server.ts; query entries are appended to a
\* URLSearchParams only when the parameter is truthy (no default)
SseCases ==
  [
  get_products |->
    [kind |-> "call", verb |-> "get",
     checks |-> <<>>,
     pathIf |-> "", path |-> <<L("products")>>, pathElse |-> <<>>,
     query |-> <<[key |-> "per_page", from |-> "perPage", dflt |-> "undefined"], [key |-> "page", from |-> "page", dflt |-> "undefined"]>>, spread |-> TRUE, body |-> ""],
  get_product |->
    [kind |-> "call", verb |-> "get",
     checks |-> <<[fields |-> <<"productId">>, test |-> "falsy", msg |-> "Product ID is required"]>>,
     pathIf |-> "", path |-> <<L("products"), P("productId")>>, pathElse |-> <<>>,
     query |-> <<>>, spread |-> FALSE, body |-> ""],
  create_product |->
    [kind |-> "call", verb |-> "post",
     checks |-> <<[fields |-> <<"productData">>, test |-> "falsy", msg |-> "Product data is required"]>>,
     pathIf |-> "", path |-> <<L("products")>>, pathElse |-> <<>>,
     query |-> <<>>, spread |-> FALSE, body |-> "productData"],
  update_product |->
    [kind |-> "call", verb |-> "put",
     checks |-> <<[fields |-> <<"productId">>, test |-> "falsy", msg |-> "Product ID is required"], [fields |-> <<"productData">>, test |-> "falsy", msg |-> "Product data is required"]>>,
     pathIf |-> "", path |-> <<L("products"), P("productId")>>, pathElse |-> <<>>,
     query |-> <<>>, spread |-> FALSE, body |-> "productData"],
  get_orders |->
    [kind |-> "call", verb |-> "get",
     checks |-> <<>>,
     pathIf |-> "", path |-> <<L("orders")>>, pathElse |-> <<>>,
     query |-> <<[key |-> "per_page", from |-> "perPage", dflt |-> "undefined"], [key |-> "page", from |-> "page", dflt |-> "undefined"]>>, spread |-> TRUE, body |-> ""],
  get_order |->
    [kind |-> "call", verb |-> "get",
     checks |-> <<[fields |-> <<"orderId">>, test |-> "falsy", msg |-> "Order ID is required"]>>,
     pathIf |-> "", path |-> <<L("orders"), P("orderId")>>, pathElse |-> <<>>,
     query |-> <<>>, spread |-> FALSE, body |-> ""],
  create_order |->
    [kind |-> "call", verb |-> "post",
     checks |-> <<[fields |-> <<"orderData">>, test |-> "falsy", msg |-> "Order data is required"]>>,
     pathIf |-> "", path |-> <<L("orders")>>, pathElse |-> <<>>,
     query |-> <<>>, spread |-> FALSE, body |-> "orderData"],
  update_order |->
    [kind |-> "call", verb |-> "put",
     checks |-> <<[fields |-> <<"orderId">>, test |-> "falsy", msg |-> "Order ID is required"], [fields |-> <<"orderData">>, test |-> "falsy", msg |-> "Order data is required"]>>,
     pathIf |-> "", path |-> <<L("orders"), P("orderId")>>, pathElse |-> <<>>,
     query |-> <<>>, spread |-> FALSE, body |-> "orderData"],
  get_customers |->
    [kind |-> "call", verb |-> "get",
     checks |-> <<>>,
     pathIf |-> "", path |-> <<L("customers")>>, pathElse |-> <<>>,
     query |-> <<[key |-> "per_page", from |-> "perPage", dflt |-> "undefined"], [key |-> "page", from |-> "page", dflt |-> "undefined"]>>, spread |-> FALSE, body |-> ""],
  get_system_status |->
    [kind |-> "call", verb |-> "get",
     checks |-> <<>>,
     pathIf |-> "", path |-> <<L("system_status")>>, pathElse |-> <<>>,
     query |-> <<>>, spread |-> FALSE, body |-> ""]
  ]

\* the value a request gives a parameter when it supplies it
ArgVal ==
  [attributeData |-> "attributeData#1", attributeId |-> "attributeId#1",
   categoryData |-> "categoryData#1", categoryId |-> "categoryId#1",
   content |-> "content#1", couponData |-> "couponData#1",
   couponId |-> "couponId#1", customerData |-> "customerData#1",
   customerId |-> "customerId#1", gatewayData |-> "gatewayData#1",
   gatewayId |-> "gatewayId#1", group |-> "group#1", id |-> "id#1",
   instanceId |-> "instanceId#1", locations |-> "locations#1",
   metaId |-> "metaId#1", methodData |-> "methodData#1",
   noteData |-> "noteData#1", noteId |-> "noteId#1",
   orderData |-> "orderData#1", orderId |-> "orderId#1",
   postId |-> "postId#1", productData |-> "productData#1",
   productId |-> "productId#1", rateId |-> "rateId#1",
   refundData |-> "refundData#1", refundId |-> "refundId#1",
   reviewData |-> "reviewData#1", reviewId |-> "reviewId#1",
   settingData |-> "settingData#1", slug |-> "slug#1",
   tagData |-> "tagData#1", tagId |-> "tagId#1",
   taxClassData |-> "taxClassData#1", taxRateData |-> "taxRateData#1",
   termData |-> "termData#1", termId |-> "termId#1", title |-> "title#1",
   toolId |-> "toolId#1", variationData |-> "variationData#1",
   variationId |-> "variationId#1", zoneData |-> "zoneData#1",
   zoneId |-> "zoneId#1", status |-> "status#1",
   perPage |-> "perPage#1", page |-> "page#1"]

\* MCP_CAPABILITIES.tools.<name>.inputSchema.required, for the tools that
\* declare it
ToolRequired ==
  [get_product     |-> <<"productId">>,
   create_product  |-> <<"productData">>,
   update_product  |-> <<"productId", "productData">>,
   delete_product  |-> <<"productId">>,
   get_order       |-> <<"orderId">>,
   create_order    |-> <<"orderData">>,
   update_order    |-> <<"orderId", "orderData">>,
   delete_order    |-> <<"orderId">>,
   get_customer    |-> <<"customerId">>,
   create_customer |-> <<"customerData">>,
   update_customer |-> <<"customerId", "customerData">>,
   delete_customer |-> <<"customerId">>]

Cases(e) == IF e = "index" THEN IndexCases ELSE SseCases

----
\* Building the upstream call

\* `/products/${params.productId}`: the template with parameters substituted
PathOf(c, params) ==
  LET t == IF c.pathIf = "" \/ Truthy(Get(params, c.pathIf))
             THEN c.path ELSE c.pathElse
  IN  [i \in 1..Len(t) |->
         IF "param" \in DOMAIN t[i] THEN Get(params, t[i].param) ELSE t[i].lit]

\* ...params.filters (spreading undefined adds nothing)
Filters(params) ==
  IF "filters" \in DOMAIN params THEN params.filters ELSE EmptyObj

\* src/index.ts: { params: { per_page: params.perPage || 10, ..., ...params.filters } }
IndexQuery(c, params) ==
  LET own == [k \in {c.query[i].key : i \in 1..Len(c.query)} |->
                LET q == CHOOSE q \in {c.query[i] : i \in 1..Len(c.query)} : q.key = k
                IN  Or(Get(params, q.from), q.dflt)]
  IN  IF c.spread THEN Spread(own, Filters(params)) ELSE own

\* some enumeration of a finite set (Object.entries order)
RECURSIVE SetToSeq(_)
SetToSeq(S) ==
  IF S = {} THEN <<>>
  ELSE LET x == CHOOSE x \in S : TRUE IN <<x>> \o SetToSeq(S \ {x})

\* filter of a sequence
RECURSIVE SelectSeqBy(_, _)
SelectSeqBy(seq, keep) ==
  IF seq = <<>> THEN <<>>
  ELSE IF Head(seq) \in keep
    THEN <<Head(seq)>> \o SelectSeqBy(Tail(seq), keep)
    ELSE SelectSeqBy(Tail(seq), keep)

\* src/sse-server.ts: URLSearchParams, an ordered list of (key, value):
\* if (params.perPage) append("per_page", ...); if (params.page) append(...);
\* Object.entries(params.filters) with value not undefined and not null
SseQuery(c, params) ==
  LET idx   == {i \in 1..Len(c.query) : Truthy(Get(params, c.query[i].from))}
      ownIx == SelectSeqBy([i \in 1..Len(c.query) |-> i], idx)
      own   == [j \in 1..Len(ownIx) |->
                  [key |-> c.query[ownIx[j]].key,
                   value |-> Get(params, c.query[ownIx[j]].from)]]
      f     == Filters(params)
      fk    == SetToSeq({k \in DOMAIN f : f[k] \notin {"undefined", "null"}})
      extra == [j \in 1..Len(fk) |-> [key |-> fk[j], value |-> f[fk[j]]]]
  IN  IF c.spread THEN own \o extra ELSE own

\* the body argument of client.post / client.put
BodyOf(c, params) ==
  IF c.body = "" THEN Undef
  ELSE IF c.body = "@create_post"
    THEN [title |-> Get(params, "title"), content |-> Get(params, "content"),
          status |-> Or(Get(params, "status"), "draft")]
  ELSE IF c.body = "@update_post"
    THEN [k \in {k \in {"title", "content", "status"} : Truthy(Get(params, k))} |->
            params[k]]
  ELSE IF c.body = "@create_post_meta"
    THEN [key |-> Get(params, "metaKey"), value |-> Get(params, "metaValue")]
  ELSE IF c.body = "@update_post_meta"
    THEN [value |-> Get(params, "metaValue")]
  ELSE Get(params, c.body)

\* Buffer.from(`${username}:${password}`).toString("base64")
base64(username, password) == [b64 |-> <<username, ":", password>>]

\* src/index.ts: axios.create for the WordPress family
WpClient(cred) ==
  [site |-> cred.siteUrl, api |-> "/wp-json/wp/v2", params |-> EmptyObj,
   Authorization |-> [scheme |-> "Basic", credentials |-> base64(cred.username, cred.password)]]

\* src/index.ts: axios.create for the WooCommerce family
WooClient(cred) ==
  [site |-> cred.siteUrl, api |-> "/wp-json/wc/v3",
   params |-> [consumer_key |-> cred.consumerKey, consumer_secret |-> cred.consumerSecret],
   Authorization |-> [scheme |-> "none", credentials |-> base64("", "")]]

\* src/sse-server.ts: axios.create with auth: {username: consumerKey, password: consumerSecret}
SseClient(cred) ==
  [site |-> cred.siteUrl, api |-> "/wp-json/wc/v3", params |-> EmptyObj,
   Authorization |-> [scheme |-> "Basic",
                      credentials |-> base64(cred.consumerKey, cred.consumerSecret)]]

\* one request of a client: the instance's params are merged under the
\* request's own
Call(client, verb, path, query, body) ==
  [verb |-> verb, site |-> client.site, api |-> client.api, path |-> path,
   query |-> query, Authorization |-> client.Authorization, body |-> body]

FirstCall(e, client, c, params) ==
  IF e = "index"
    THEN Call(client, c.verb, PathOf(c, params),
              Spread(client.params, IndexQuery(c, params)), BodyOf(c, params))
    ELSE Call(client, c.verb, PathOf(c, params), SseQuery(c, params), BodyOf(c, params))

----
\* The handler up to its first await

Thrown(cred, error) ==
  [pc |-> "failed", cred |-> cred, calls |-> <<>>, error |-> error]

\* Issued with the call sent a second time
IssuedTwice(cred, call) ==
  [pc |-> "awaiting", cred |-> cred, calls |-> <<call, call>>, error |-> NoError]

Issued(cred, call) ==
  [pc |-> "awaiting", cred |-> cred, calls |-> <<call>>, error |-> NoError]

\* if (!params.x) / if (!params.x || !params.y) / if (params.x === undefined)
CheckFails(check, params) ==
  \E i \in 1..Len(check.fields) :
    IF check.test = "falsy"
      THEN ~Truthy(Get(params, check.fields[i]))
      ELSE Get(params, check.fields[i]) = Undef

\* FirstFailing with the guards tried from the last to the first
LastFailing(checks, params) ==
  IF \E i \in 1..Len(checks) : CheckFails(checks[i], params)
    THEN CHOOSE i \in 1..Len(checks) :
           /\ CheckFails(checks[i], params)
           /\ \A j \in (i + 1)..Len(checks) : ~CheckFails(checks[j], params)
    ELSE 0

\* the first guard of the case that throws, 0 when none does
FirstFailing(checks, params) ==
  IF \E i \in 1..Len(checks) : CheckFails(checks[i], params)
    THEN CHOOSE i \in 1..Len(checks) :
           /\ CheckFails(checks[i], params)
           /\ \A j \in 1..(i - 1) : ~CheckFails(checks[j], params)
    ELSE 0

\* switch (method) { case ...: guards; await client.<verb>(...) ; default: throw }
Switch(e, method, params, cred, client) ==
  IF method \notin DOMAIN Cases(e) THEN Thrown(cred, MsgUnknown(method))
  ELSE LET c == Cases(e)[method]
           k == FirstFailing(c.checks, params)
       IN  IF k # 0 THEN Thrown(cred, Err(c.checks[k].msg, ""))
           ELSE Issued(cred, FirstCall(e, client, c, params))

\* siteUrlMissing without the test
siteUrlNeverMissing(cred) == FALSE

\* if (!siteUrl)
siteUrlMissing(cred) == ~Truthy(cred.siteUrl)

\* wpCredMissing with && for ||
wpCredBothMissing(cred) == ~Truthy(cred.username) /\ ~Truthy(cred.password)

\* if (!username || !password)
wpCredMissing(cred) == ~Truthy(cred.username) \/ ~Truthy(cred.password)

\* if (!consumerKey || !consumerSecret)
wooCredMissing(cred) == ~Truthy(cred.consumerKey) \/ ~Truthy(cred.consumerSecret)

\* handleWooCommerceRequest of src/index.ts
handleIndex(method, params, dflt) ==
  LET cred == Resolve(params, dflt)
  IN  IF siteUrlMissing(cred) THEN Thrown(cred, MsgSiteUrl)
      ELSE IF method \in wpMethods
        THEN IF wpCredMissing(cred) THEN Thrown(cred, MsgWpCred)
             ELSE Switch("index", method, params, cred, WpClient(cred))
      ELSE IF method \in wooMethods
        THEN IF wooCredMissing(cred) THEN Thrown(cred, MsgWooCred)
             ELSE Switch("index", method, params, cred, WooClient(cred))
      ELSE Thrown(cred, MsgUnknown(method))

\* handleWooCommerceRequest of src/sse-server.ts
handleSse(method, params, dflt) ==
  LET cred == Resolve(params, dflt)
  IN  IF siteUrlMissing(cred) THEN Thrown(cred, MsgSiteUrl)
      ELSE Switch("sse", method, params, cred, SseClient(cred))

handleWooCommerceRequest(e, method, params, dflt) ==
  IF e = "index" THEN handleIndex(method, params, dflt)
  ELSE handleSse(method, params, dflt)

----
\* The meta_data read-modify-write

\* product.meta_data || []
MetaOf(data) == IF "meta_data" \in DOMAIN data THEN data.meta_data ELSE <<>>

\* setMeta with unshift for push
setMetaUnshift(metaData, metaKey, metaValue) ==
  LET existingMetaIndex == findIndex(metaData, metaKey)
  IN  IF existingMetaIndex >= 1
        THEN [metaData EXCEPT ![existingMetaIndex].value = metaValue]
        ELSE <<[key |-> metaKey, value |-> metaValue]>> \o metaData

\* setMeta that drops the entries with the key and pushes the new one
setMetaMoveToEnd(metaData, metaKey, metaValue) ==
  Append(filterOut(metaData, metaKey), [key |-> metaKey, value |-> metaValue])

\* create_*_meta / update_*_meta: replace the value of the first entry with
\* the key, or push a new entry
setMeta(metaData, metaKey, metaValue) ==
  LET existingMetaIndex == findIndex(metaData, metaKey)
  IN  IF existingMetaIndex >= 1
        THEN [metaData EXCEPT ![existingMetaIndex].value = metaValue]
        ELSE Append(metaData, [key |-> metaKey, value |-> metaValue])

\* deleteMeta that removes the first entry with the key only
deleteMetaFirstOnly(currentMetaData, metaKey) ==
  LET i == findIndex(currentMetaData, metaKey)
  IN  IF i = 0 THEN currentMetaData
      ELSE SubSeq(currentMetaData, 1, i - 1)
             \o SubSeq(currentMetaData, i + 1, Len(currentMetaData))

\* delete_*_meta
deleteMeta(currentMetaData, metaKey) == filterOut(currentMetaData, metaKey)

\* the sequence the PUT carries
UpdatedMeta(kind, metaData, params) ==
  IF kind = "metaSet"
    THEN setMeta(metaData, Get(params, "metaKey"), Get(params, "metaValue"))
    ELSE deleteMeta(metaData, Get(params, "metaKey"))

\* PutCall that carries the last entry of the sequence only
PutCallLastEntry(getCall, meta) ==
  [getCall EXCEPT !.verb = "put",
                  !.body = [meta_data |-> IF meta = <<>> THEN <<>> ELSE <<meta[Len(meta)]>>]]

\* client.put(<same path>, { meta_data: ... }) of the same client
PutCall(getCall, meta) ==
  [getCall EXCEPT !.verb = "put", !.body = [meta_data |-> meta]]

\* get_*_meta: all entries, or those with params.metaKey
ReadMeta(metaData, params) ==
  IF Truthy(Get(params, "metaKey"))
    THEN filterKey(metaData, Get(params, "metaKey"))
    ELSE metaData

----
\* catchError that never reads the response body
catchErrorNoBody(error) ==
  IF error.hasResponse
    THEN Err("API error: ", error.message)
    ELSE Err(error.message, "")

\* catch (error): an axios error with a response is rewrapped, anything
\* else is rethrown as it is
catchError(error) ==
  IF error.hasResponse
    THEN Err("API error: ", Or(error.bodyMessage, error.message))
    ELSE Err(error.message, "")

----
\* Inputs

MaxMeta == 2

MetaKeys == {"k1", "k2"}

MetaValues == {"v1", "v2"}

MetaEntries == [key : MetaKeys, value : MetaValues]

MetaSeqs == UNION {[1..n -> MetaEntries] : n \in 0..MaxMeta}

\* the entity a GET returns: with a meta_data array, or without the field
EntityData == {[id |-> "entity"]} \cup {[id |-> "entity", meta_data |-> s] : s \in MetaSeqs}

\* what a successful call returns for the other methods
UpstreamData == "upstream data"

\* the ways an upstream call fails: a response (of some status) whose body
\* has a message, a response whose body has none, no response at all
UpstreamErrors ==
  {[hasResponse |-> TRUE, status |-> st, bodyMessage |-> bm, message |-> "transport message"] :
     st \in {"404", "500"}, bm \in {"upstream message", Undef}}
  \cup
  {[hasResponse |-> FALSE, status |-> Undef, bodyMessage |-> Undef, message |-> "transport message"]}

\* no upstream call has failed
NoRejection ==
  [hasResponse |-> FALSE, status |-> Undef, bodyMessage |-> Undef, message |-> ""]

UnknownMethods == {"nonexistent_method"}

\* the list methods dispatched with and without perPage and page
PageMethods == {"get_posts", "get_products", "get_orders", "get_shipping_zones"}

MethodNames == DOMAIN IndexCases \cup UnknownMethods

\* the parameters a case reads in its guards
CheckFields(c) ==
  UNION {{c.checks[i].fields[j] : j \in 1..Len(c.checks[i].fields)} : i \in 1..Len(c.checks)}

\* the parameters varied for a method: those of its guards, and the optional
\* ones that choose its path or the entries it returns
Varied(method) ==
  IF method \notin DOMAIN IndexCases THEN {}
  ELSE LET c == IndexCases[method]
       IN  CheckFields(c)
             \cup (IF c.pathIf # "" THEN {c.pathIf} ELSE {})
             \cup (IF c.kind = "metaGet" THEN {"metaKey"} ELSE {})
             \cup (IF method = "update_post" THEN {"title", "status"} ELSE {})
             \cup (IF method \in PageMethods THEN {"perPage", "page"} ELSE {})

Args(S, mk, mv) ==
  [k \in S |-> IF k = "metaKey" THEN mk ELSE IF k = "metaValue" THEN mv ELSE ArgVal[k]]

\* requests that carry no credentials: every subset of the varied parameters
TableInputs(method) ==
  {Args(S, mk, mv) : S \in SUBSET Varied(method), mk \in MetaKeys, mv \in MetaValues}

\* how many credential fields of one request are the empty string
MaxEmpty == 1

\* the credential part of a request: each field absent, empty or supplied
CredInputs ==
  UNION {{cp \in [S -> {""} \cup {ReqVal[f] : f \in CredFields}] :
            /\ \A f \in S : cp[f] \in {"", ReqVal[f]}
            /\ Cardinality({f \in S : cp[f] = ""}) <= MaxEmpty} : S \in SUBSET CredFields}

\* the methods dispatched under every combination of credentials
CredMethods == {"nonexistent_method", "get_products", "create_post"}

\* requests with valid parameters and any credential part
CredSlice(method) ==
  IF method \in CredMethods
    THEN {Spread(Args(Varied(method), "k1", "v1"), cp) : cp \in CredInputs}
    ELSE {}

Inputs(method) == TableInputs(method) \cup CredSlice(method)

----
\* State: per slot, pc is the position of the dispatch ("idle", "awaiting"
\* an upstream reply, "done", "failed", "answered" once the transport has
\* written the response); calls are the upstream calls issued
\* so far and replies the number of them that were answered; got is the
\* meta_data the GET returned, rejection the error an upstream call failed
\* with

NoCred == [f \in CredFields |-> ""]

Idle ==
  [pc |-> "idle", method |-> "", params |-> EmptyObj, cred |-> NoCred,
   calls |-> <<>>, replies |-> 0, error |-> NoError, got |-> <<>>, result |-> Undef,
   rejection |-> NoRejection]

\* the request slots: requests in flight at the same time
Reqs == {"A", "B"}

\* the slot used when requests are dispatched one at a time
Solo == {"A"}

\* no request received in the slot
NoWire ==
  [transport |-> "none", payload |-> "none", id |-> Undef, method |-> Undef,
   hasParams |-> FALSE, params |-> EmptyObj]

\* the process after start-up: nothing in flight, nobody subscribed
\* the process after main() has started its server
Running == [phase |-> "running", code |-> Undef, signal |-> Undef]

Quiet ==
  /\ disp = [r \in Reqs |-> Idle]
  /\ wire = [r \in Reqs |-> NoWire]
  /\ out = [r \in Reqs |-> <<>>]
  /\ sseConnections = EmptyObj
  /\ streams = EmptyObj
  /\ store = <<>>
  /\ proc = Running

Init ==
  /\ entry \in {"index", "sse"}
  /\ defaults \in DefaultsSet
  /\ mode = "http"
  /\ Quiet

KindOf(r) == Cases(entry)[disp[r].method].kind

\* the dispatch a call of handleWooCommerceRequest(method, params) starts
Invoke(method, params) ==
  LET o == handleWooCommerceRequest(entry, method, params, defaults)
  IN  [pc |-> o.pc, method |-> method, params |-> params,
       cred |-> o.cred, calls |-> o.calls, replies |-> 0,
       error |-> o.error, got |-> <<>>, result |-> Undef,
       rejection |-> NoRejection]

\* handleWooCommerceRequest(method, params) is called and runs to its first
\* await, or throws before it
Dispatch(r, method, params) ==
  /\ disp[r].pc = "idle"
  /\ disp' = [disp EXCEPT ![r] = Invoke(method, params)]
  /\ UNCHANGED <<proc, entry, defaults, mode, wire, out, sseConnections, streams, store>>

\* the payload of a broadcast: { type, data: response.data, timestamp }
Event(type, data) == [type |-> type, data |-> data]

\* SseBroadcasts with the channels of products and orders exchanged
SseBroadcastsSwapped ==
  [create_product |-> [channel |-> "orders", type |-> "product_created"],
   update_product |-> [channel |-> "orders", type |-> "product_updated"],
   create_order   |-> [channel |-> "products", type |-> "order_created"],
   update_order   |-> [channel |-> "products", type |-> "order_updated"]]

\* src/sse-server.ts: the cases that call broadcastSSE(channel, {type, ...})
\* once their upstream call has resolved
SseBroadcasts ==
  [create_product |-> [channel |-> "products", type |-> "product_created"],
   update_product |-> [channel |-> "products", type |-> "product_updated"],
   create_order   |-> [channel |-> "orders", type |-> "order_created"],
   update_order   |-> [channel |-> "orders", type |-> "order_updated"]]

\* connections.splice(index, 1), index counted from 1
splice(connections, index) ==
  SubSeq(connections, 1, index - 1) \o SubSeq(connections, index + 1, Len(connections))

\* connections.forEach((res, index) => { try { res.write(message) } catch
\* { connections.splice(index, 1) } }): the indices 1..len of the array as it
\* was at the start are visited, each only if the array still has it; wrote
\* is the set of streams written to
RECURSIVE forEach(_, _, _, _)
forEach(connections, index, len, wrote) ==
  IF index > len THEN [connections |-> connections, wrote |-> wrote]
  ELSE IF index > Len(connections) THEN forEach(connections, index + 1, len, wrote)
  ELSE IF streams[connections[index]].throws
    THEN forEach(splice(connections, index), index + 1, len, wrote)
    ELSE forEach(connections, index + 1, len, wrote \cup {connections[index]})

\* broadcastSSE that writes to the subscribers of every channel
broadcastEveryChannel(channel, data) ==
  [connections |-> sseConnections,
   streams |-> [c \in DOMAIN streams |->
                  IF \E ch \in DOMAIN sseConnections :
                       \E i \in 1..Len(sseConnections[ch]) : sseConnections[ch][i] = c
                    THEN [streams[c] EXCEPT !.written = Append(@, data)]
                    ELSE streams[c]]]

\* broadcastSSE(channel, data): the map and the streams after it
broadcastSSE(channel, data) ==
  IF channel \notin DOMAIN sseConnections
    THEN [connections |-> sseConnections, streams |-> streams]
    ELSE LET e == forEach(sseConnections[channel], 1, Len(sseConnections[channel]), {})
         IN  [connections |-> [sseConnections EXCEPT ![channel] = e.connections],
              streams |-> [c \in DOMAIN streams |->
                             IF c \in e.wrote
                               THEN [streams[c] EXCEPT !.written = Append(@, data)]
                               ELSE streams[c]]]

\* the only call of a case resolves: return response.data, in
\* src/sse-server.ts after the broadcast of the case
ReplyData(r) ==
  /\ disp[r].pc = "awaiting"
  /\ KindOf(r) = "call"
  /\ disp' = [disp EXCEPT ![r].pc = "done", ![r].replies = @ + 1,
                          ![r].result = UpstreamData]
  /\ IF entry = "sse" /\ disp[r].method \in DOMAIN SseBroadcasts
       THEN LET b == broadcastSSE(SseBroadcasts[disp[r].method].channel,
                                  Event(SseBroadcasts[disp[r].method].type, UpstreamData))
            IN  sseConnections' = b.connections /\ streams' = b.streams
       ELSE UNCHANGED <<sseConnections, streams>>
  /\ UNCHANGED <<proc, entry, defaults, mode, wire, out, store>>

\* the GET of get_*_meta resolves: return the entity's meta_data, filtered
ReplyMetaRead(r, data) ==
  /\ disp[r].pc = "awaiting"
  /\ KindOf(r) = "metaGet"
  /\ disp' = [disp EXCEPT ![r].pc = "done", ![r].replies = @ + 1,
                          ![r].got = MetaOf(data),
                          ![r].result = ReadMeta(MetaOf(data), disp[r].params)]
  /\ UNCHANGED <<proc, entry, defaults, mode, wire, out, sseConnections, streams, store>>

\* the GET of create/update/delete meta resolves: the sequence is changed
\* and the PUT is issued
ReplyEntity(r, data) ==
  /\ disp[r].pc = "awaiting"
  /\ KindOf(r) \in {"metaSet", "metaDelete"}
  /\ Len(disp[r].calls) = 1
  /\ LET meta == UpdatedMeta(KindOf(r), MetaOf(data), disp[r].params)
     IN  disp' = [disp EXCEPT ![r].got = MetaOf(data), ![r].replies = @ + 1,
                             ![r].calls = Append(@, PutCall(@[1], meta))]
  /\ UNCHANGED <<proc, entry, defaults, mode, wire, out, sseConnections, streams, store>>

\* the PUT resolves: return response.data.meta_data (the upstream answers
\* with the entity as written)
ReplyPut(r) ==
  /\ disp[r].pc = "awaiting"
  /\ KindOf(r) \in {"metaSet", "metaDelete"}
  /\ Len(disp[r].calls) = 2
  /\ disp' = [disp EXCEPT ![r].pc = "done", ![r].replies = @ + 1,
                          ![r].result = disp[r].calls[2].body.meta_data]
  /\ UNCHANGED <<proc, entry, defaults, mode, wire, out, sseConnections, streams, store>>

\* ReplyError that issues the rejected call once more
ReplyErrorRetry(r, error) ==
  /\ disp[r].pc = "awaiting"
  /\ disp' = [disp EXCEPT ![r].replies = @ + 1,
                          ![r].calls = Append(@, @[Len(@)]),
                          ![r].rejection = error]
  /\ UNCHANGED <<proc, entry, defaults, mode, wire, out, sseConnections, streams, store>>

\* the outstanding call rejects: the catch block rethrows
ReplyError(r, error) ==
  /\ disp[r].pc = "awaiting"
  /\ disp' = [disp EXCEPT ![r].pc = "failed", ![r].replies = @ + 1,
                          ![r].error = catchError(error),
                          ![r].rejection = error]
  /\ UNCHANGED <<proc, entry, defaults, mode, wire, out, sseConnections, streams, store>>

\* the caller has the result or the error; the slot is free again
Finish(r) ==
  /\ disp[r].pc \in {"done", "failed"}
  /\ disp' = [disp EXCEPT ![r] = Idle]
  /\ UNCHANGED <<proc, entry, defaults, mode, wire, out, sseConnections, streams, store>>

Next ==
  \/ \E r \in Solo, method \in MethodNames : \E params \in Inputs(method) :
       Dispatch(r, method, params)
  \/ \E r \in Solo : ReplyData(r)
  \/ \E r \in Solo, data \in EntityData : ReplyMetaRead(r, data)
  \/ \E r \in Solo, data \in EntityData : ReplyEntity(r, data)
  \/ \E r \in Solo : ReplyPut(r)
  \/ \E r \in Solo, error \in UpstreamErrors : ReplyError(r, error)
  \/ \E r \in Solo : Finish(r)

Spec == Init /\ [][Next]_vars

----
\* The transports: POST /message of src/index.ts; the stdin line reader and
\* POST /api/woocommerce of src/sse-server.ts, of which main() starts one

Transports ==
  IF entry = "index" THEN {"http"}
  ELSE IF mode = "mcp" THEN {"stdio"}
  ELSE {"api"}

\* the tools of MCP_CAPABILITIES, in their order
MCP_CAPABILITIES ==
  <<"create_post", "get_posts", "update_post", "get_post_meta",
    "update_post_meta", "create_post_meta", "delete_post_meta",
    "get_products", "get_product", "create_product", "update_product",
    "delete_product", "get_product_meta", "create_product_meta",
    "update_product_meta", "delete_product_meta",
    "get_product_categories", "get_product_category",
    "create_product_category", "update_product_category",
    "delete_product_category", "get_product_tags", "get_product_tag",
    "create_product_tag", "update_product_tag", "delete_product_tag",
    "get_product_attributes", "get_product_attribute",
    "create_product_attribute", "update_product_attribute",
    "delete_product_attribute", "get_attribute_terms",
    "get_attribute_term", "create_attribute_term",
    "update_attribute_term", "delete_attribute_term",
    "get_product_variations", "get_product_variation",
    "create_product_variation", "update_product_variation",
    "delete_product_variation", "get_product_reviews",
    "get_product_review", "create_product_review",
    "update_product_review", "delete_product_review", "get_orders",
    "get_order", "create_order", "update_order", "delete_order",
    "get_order_meta", "create_order_meta", "update_order_meta",
    "delete_order_meta", "get_order_notes", "get_order_note",
    "create_order_note", "delete_order_note", "get_order_refunds",
    "get_order_refund", "create_order_refund", "delete_order_refund",
    "get_customers", "get_customer", "create_customer",
    "update_customer", "delete_customer", "get_customer_meta",
    "create_customer_meta", "update_customer_meta",
    "delete_customer_meta", "get_shipping_zones", "get_shipping_zone",
    "create_shipping_zone", "update_shipping_zone",
    "delete_shipping_zone", "get_shipping_methods",
    "get_shipping_zone_methods", "create_shipping_zone_method",
    "update_shipping_zone_method", "delete_shipping_zone_method",
    "get_shipping_zone_locations", "update_shipping_zone_locations",
    "get_tax_classes", "create_tax_class", "delete_tax_class",
    "get_tax_rates", "get_tax_rate", "create_tax_rate",
    "update_tax_rate", "delete_tax_rate", "get_coupons", "get_coupon",
    "create_coupon", "update_coupon", "delete_coupon",
    "get_payment_gateways", "get_payment_gateway",
    "update_payment_gateway", "get_sales_report", "get_products_report",
    "get_orders_report", "get_categories_report", "get_customers_report",
    "get_stock_report", "get_coupons_report", "get_taxes_report",
    "get_settings", "get_setting_options", "update_setting_option",
    "get_system_status", "get_system_status_tools",
    "run_system_status_tool", "get_data", "get_continents",
    "get_countries", "get_currencies", "get_current_currency">>

\* handleMcpInitialization()
handleMcpInitialization ==
  [protocolVersion |-> "2024-11-05", capabilities |-> MCP_CAPABILITIES,
   serverInfo |-> [name |-> "woocommerce-mcp-server", version |-> "1.0.0"]]

\* handleListTools that lists one tool more than MCP_CAPABILITIES.tools has
handleListToolsExtra == [tools |-> Append(MCP_CAPABILITIES, "get_inventory")]

\* handleListTools()
handleListTools == [tools |-> MCP_CAPABILITIES]

\* new Error("Invalid JSON-RPC version")
MsgVersion == Err("Invalid JSON-RPC version", "")

\* the SyntaxError of JSON.parse
MsgSyntax == Err("Unexpected token", "")

\* the TypeError of params.siteUrl with params undefined
MsgTypeError == Err("Cannot read properties of undefined (reading 'siteUrl')", "")

\* res.json / JSON.stringify: a key whose value is undefined is left out
Json(obj) ==
  IF obj.id = Undef THEN [k \in DOMAIN obj \ {"id"} |-> obj[k]] ELSE obj

\* the response of the first catch
ParseError(error) ==
  [jsonrpc |-> "2.0", id |-> "null",
   error |-> [code |-> -32700, message |-> Err("Parse error", ""), data |-> error]]

\* { jsonrpc: "2.0", id: request.id, result }
Success(id, result) == Json([jsonrpc |-> "2.0", id |-> id, result |-> result])

\* { jsonrpc: "2.0", id: request.id, error: { code: -32000, message } }
Failure(id, error) ==
  Json([jsonrpc |-> "2.0", id |-> id, error |-> [code |-> -32000, message |-> error]])

\* express.json() could not parse the body: the handler is not called,
\* Express answers 400 with its own error page
ExpressError == [status |-> 400, page |-> "SyntaxError"]

\* res.json({ success: true, data: result })
ApiSuccess(result) == [status |-> 200, success |-> TRUE, data |-> result]

\* res.status(500).json({ success: false, error })
ApiFailure(error) == [status |-> 500, success |-> FALSE, error |-> error]

\* handleWooCommerceRequest(method, undefined): params.siteUrl throws
InvokeUndefined(method) ==
  [pc |-> "failed", method |-> method, params |-> EmptyObj, cred |-> NoCred,
   calls |-> <<>>, replies |-> 0, error |-> MsgTypeError, got |-> <<>>,
   result |-> Undef, rejection |-> NoRejection]

\* Called with the params of a dispatch in flight merged under the request's
CalledShared(req) ==
  LET seen == {disp[x].params : x \in {x \in Reqs : disp[x].pc \notin {"idle", "answered"}}}
      last == IF seen = {} THEN EmptyObj ELSE CHOOSE p \in seen : TRUE
  IN  IF req.hasParams THEN Invoke(req.method, Spread(last, req.params))
      ELSE InvokeUndefined(req.method)

\* handleWooCommerceRequest(request.method, request.params)
Called(req) ==
  IF req.hasParams THEN Invoke(req.method, req.params)
  ELSE InvokeUndefined(req.method)

Answered(response) == [out |-> <<response>>, disp |-> Idle]

\* app.post('/message') of src/index.ts up to its first await
postMessage(req) ==
  IF req.payload = "malformed" THEN Answered(ExpressError)
  ELSE IF req.payload = "badversion" THEN Answered(ParseError(MsgVersion))
  ELSE IF req.method = "initialize"
    THEN Answered(Success(req.id, handleMcpInitialization))
  ELSE IF req.method = "tools/list"
    THEN Answered(Success(req.id, handleListTools))
  ELSE [out |-> <<>>, disp |-> Called(req)]

\* rl.on("line") of src/sse-server.ts up to its first await
onLine(req) ==
  IF req.payload = "malformed" THEN Answered(ParseError(MsgSyntax))
  ELSE IF req.payload = "badversion" THEN Answered(ParseError(MsgVersion))
  ELSE [out |-> <<>>, disp |-> Called(req)]

\* app.post("/api/woocommerce") of src/sse-server.ts up to its first await:
\* handleWooCommerceRequest(method, params || {})
postApi(req) ==
  IF req.payload = "malformed" THEN Answered(ExpressError)
  ELSE [out |-> <<>>, disp |-> Called([req EXCEPT !.hasParams = TRUE])]

\* a request arrives on a transport
Receive(r, t, req) ==
  /\ disp[r].pc \in {"idle", "answered"}
  /\ t \in Transports
  /\ wire' = [wire EXCEPT ![r] =
                [transport |-> t, payload |-> req.payload, id |-> req.id,
                 method |-> req.method, hasParams |-> req.hasParams,
                 params |-> req.params]]
  /\ \E a \in {IF t = "http" THEN postMessage(req)
               ELSE IF t = "stdio" THEN onLine(req)
               ELSE postApi(req)} :
       /\ out' = [out EXCEPT ![r] = a.out]
       /\ disp' = [disp EXCEPT ![r] = a.disp]
  /\ UNCHANGED <<proc, entry, defaults, mode, sseConnections, streams, store>>

\* RespondTo with the error of a failed dispatch reported as its result
RespondAlwaysResult(t, id, d) ==
  IF t = "api"
    THEN (IF d.pc = "done" THEN ApiSuccess(d.result) ELSE ApiSuccess(d.error))
    ELSE (IF d.pc = "done" THEN Success(id, d.result) ELSE Success(id, d.error))

\* what the transport writes when the dispatch has returned or thrown
RespondTo(t, id, d) ==
  IF t = "api"
    THEN (IF d.pc = "done" THEN ApiSuccess(d.result) ELSE ApiFailure(d.error))
    ELSE (IF d.pc = "done" THEN Success(id, d.result) ELSE Failure(id, d.error))

\* the awaited handleWooCommerceRequest has settled: the response is written
Respond(r) ==
  /\ disp[r].pc \in {"done", "failed"}
  /\ wire[r].transport # "none"
  /\ out' = [out EXCEPT ![r] = Append(@, RespondTo(wire[r].transport, wire[r].id, disp[r]))]
  /\ disp' = [disp EXCEPT ![r].pc = "answered"]
  /\ UNCHANGED <<proc, entry, defaults, mode, wire, sseConnections, streams, store>>


----
\* Requests on the transports

Ids == {"id-1", "id-2"}

\* a line or body that is not JSON
Malformed ==
  [payload |-> "malformed", id |-> Undef, method |-> Undef, hasParams |-> FALSE,
   params |-> EmptyObj]

\* the params of the requests sent for a method: without credentials, with
\* the five credentials, without a required parameter
AdapterParams(method) ==
  IF method = "create_product"
    THEN {EmptyObj, Args({"productData"}, "k1", "v1"),
          Spread(ReqVal, Args({"productData"}, "k1", "v1"))}
  ELSE IF method = "create_post"
    THEN {Spread(ReqVal, Args({"title", "content"}, "k1", "v1"))}
  ELSE IF method = "get_product_meta"
    THEN {Spread(ReqVal, Args({"productId", "metaKey"}, "k1", "v1"))}
  ELSE IF method = "create_product_meta"
    THEN {Spread(ReqVal, Args({"productId", "metaKey", "metaValue"}, "k1", "v1"))}
  ELSE {EmptyObj, ReqVal}

\* the methods requested (a request without method has method undefined)
AdapterMethods ==
  {"initialize", "tools/list", Undef, "nonexistent_method", "get_products",
   "create_product", "create_post", "get_product_meta", "create_product_meta"}

Requests ==
  {Malformed}
    \cup {[payload |-> "badversion", id |-> i, method |-> "get_products",
           hasParams |-> TRUE, params |-> ReqVal] : i \in Ids}
    \cup UNION {{[payload |-> "ok", id |-> i, method |-> m, hasParams |-> TRUE,
                  params |-> p] : i \in Ids, p \in AdapterParams(m)} :
                m \in AdapterMethods}
    \cup {[payload |-> "ok", id |-> i, method |-> m, hasParams |-> FALSE,
           params |-> EmptyObj] :
            i \in Ids, m \in {"initialize", "tools/list", "get_products"}}
    \cup {[payload |-> "ok", id |-> Undef, method |-> m, hasParams |-> TRUE,
           params |-> ReqVal] : m \in {"initialize", "get_products"}}

\* the defaults of the processes that serve the transports: nothing
\* configured, or everything
AdapterDefaults == {NoCred, EnvVal}

InitAdapter ==
  /\ entry \in {"index", "sse"}
  /\ mode \in (IF entry = "index" THEN {"http"} ELSE {"http", "mcp"})
  /\ defaults \in AdapterDefaults
  /\ Quiet

NextAdapter ==
  \/ \E r \in Solo, t \in {"http", "stdio", "api"} : \E req \in Requests :
       Receive(r, t, req)
  \/ \E r \in Solo : ReplyData(r)
  \/ \E r \in Solo, data \in EntityData : ReplyMetaRead(r, data)
  \/ \E r \in Solo, data \in EntityData : ReplyEntity(r, data)
  \/ \E r \in Solo : ReplyPut(r)
  \/ \E r \in Solo, error \in UpstreamErrors : ReplyError(r, error)
  \/ \E r \in Solo : Respond(r)

SpecAdapter == InitAdapter /\ [][NextAdapter]_vars

----
\* Two requests in flight at the same time

\* the requests of a slot, each slot with its own id: a body that is not
\* JSON, an unknown method, get_products and create_product with the
\* defaults or with the request's own credentials, create_product without
\* its productData
ConcRequests(r) ==
  LET i == IF r \in Solo THEN "id-1" ELSE "id-2"
  IN  {Malformed}
        \cup {[payload |-> "ok", id |-> i, method |-> m, hasParams |-> TRUE, params |-> p] :
                m \in {"get_products"}, p \in {EmptyObj, ReqVal}}
        \cup {[payload |-> "ok", id |-> i, method |-> "create_product", hasParams |-> TRUE,
               params |-> p] : p \in {EmptyObj, Args({"productData"}, "k1", "v1")}}
        \cup {[payload |-> "ok", id |-> i, method |-> "nonexistent_method",
               hasParams |-> TRUE, params |-> ReqVal]}

NextConc ==
  \/ \E r \in Reqs, t \in {"http", "stdio", "api"} : \E req \in ConcRequests(r) :
       Receive(r, t, req)
  \/ \E r \in Reqs : ReplyData(r)
  \/ \E r \in Reqs, error \in UpstreamErrors : ReplyError(r, error)
  \/ \E r \in Reqs : Respond(r)

SpecConc == InitAdapter /\ [][NextConc]_vars

----
\* Scheduling.  The event loop runs the continuation of a settled await, so a
\* settled dispatch is answered.  axios.create sets no timeout and the axios
\* default is 0 (none): nothing in the process ends an outstanding call, and
\* whether the upstream replies is up to the upstream.

Scheduled == WF_vars(\E r \in Solo : Respond(r))

SpecAdapterFair == InitAdapter /\ [][NextAdapter]_vars /\ Scheduled

----
\* The SSE endpoint of src/sse-server.ts (http mode)

Conns == {"s1", "s2"}

Channels == {"products", "orders"}

\* how many messages one stream is sent
MaxWritten == 2

\* GET /events/:channel: the response is pushed on the channel's list and
\* sent the "connected" message
Connect(c, channel) ==
  /\ entry = "sse" /\ mode = "http"
  /\ c \notin DOMAIN streams
  /\ sseConnections' =
       [ch \in DOMAIN sseConnections \cup {channel} |->
          IF ch = channel
            THEN Append(IF ch \in DOMAIN sseConnections THEN sseConnections[ch] ELSE <<>>, c)
            ELSE sseConnections[ch]]
  /\ streams' = [x \in DOMAIN streams \cup {c} |->
                   IF x = c THEN [channel |-> channel, throws |-> FALSE,
                                  written |-> <<"connected">>]
                   ELSE streams[x]]
  /\ UNCHANGED <<proc, entry, defaults, mode, disp, wire, out, store>>

\* connections.indexOf(res), counted from 1; 0 when absent
indexOf(connections, c) ==
  IF \E i \in 1..Len(connections) : connections[i] = c
    THEN CHOOSE i \in 1..Len(connections) :
           connections[i] = c /\ \A j \in 1..(i - 1) : connections[j] # c
    ELSE 0

\* req.on("close"): the response is taken off its channel's list if it is
\* still on it
Close(c) ==
  /\ c \in DOMAIN streams
  /\ LET channel == streams[c].channel
         index == indexOf(sseConnections[channel], c)
     IN  sseConnections' =
           IF index # 0
             THEN [sseConnections EXCEPT ![channel] = splice(@, index)]
             ELSE sseConnections
  /\ streams' = [x \in DOMAIN streams \ {c} |-> streams[x]]
  /\ UNCHANGED <<proc, entry, defaults, mode, disp, wire, out, store>>

\* from now on res.write throws for this response
Break(c) ==
  /\ c \in DOMAIN streams
  /\ ~streams[c].throws
  /\ streams' = [streams EXCEPT ![c].throws = TRUE]
  /\ UNCHANGED <<proc, entry, defaults, mode, disp, wire, out, sseConnections, store>>

\* the requests sent while streams are subscribed
SseRequests ==
  {[payload |-> "ok", id |-> "id-1", method |-> m, hasParams |-> TRUE, params |-> p] :
     m \in {"create_product"}, p \in {EmptyObj, Args({"productData"}, "k1", "v1")}}
  \cup
  {[payload |-> "ok", id |-> "id-1", method |-> "update_order", hasParams |-> TRUE,
    params |-> Args({"orderId", "orderData"}, "k1", "v1")],
   [payload |-> "ok", id |-> "id-1", method |-> "update_product", hasParams |-> TRUE,
    params |-> Args({"productId", "productData"}, "k1", "v1")],
   [payload |-> "ok", id |-> "id-1", method |-> "create_order", hasParams |-> TRUE,
    params |-> Args({"orderData"}, "k1", "v1")],
   [payload |-> "ok", id |-> "id-1", method |-> "get_products", hasParams |-> TRUE,
    params |-> EmptyObj]}

InitSse ==
  /\ entry \in {"index", "sse"}
  /\ mode = "http"
  /\ defaults = EnvVal
  /\ Quiet

NextSse ==
  \/ \E c \in Conns, channel \in Channels : Connect(c, channel)
  \/ \E c \in Conns : Close(c)
  \/ \E c \in Conns : Break(c)
  \/ \E r \in Solo, t \in {"http", "api"} : \E req \in SseRequests :
       /\ \A c \in DOMAIN streams : Len(streams[c].written) < MaxWritten
       /\ Receive(r, t, req)
  \/ \E r \in Solo : ReplyData(r)
  \/ \E r \in Solo, error \in UpstreamErrors : ReplyError(r, error)
  \/ \E r \in Solo : Respond(r)

SpecSse == InitSse /\ [][NextSse]_vars

----
\* The meta cases of src/index.ts against one upstream product: store is the
\* meta_data the upstream holds for it

\* what the upstream answers to GET /products/<id>
Entity(meta) == [id |-> "entity", meta_data |-> meta]

\* an upstream that keeps the entries it holds whose key the PUT does not carry
InstalledMerged(current, call) ==
  LET carried(e) == \E i \in 1..Len(call.body.meta_data) : call.body.meta_data[i].key = e.key
      untouched(e) == ~carried(e)
  IN  SelectSeq(current, untouched) \o call.body.meta_data

\* the upstream after PUT /products/<id> { meta_data }: it holds the sequence
\* the PUT carries
Installed(current, call) == call.body.meta_data

\* the GET of a meta case resolves with what the upstream holds
UpstreamGet(r) == ReplyEntity(r, Entity(store))

\* the PUT of a meta case resolves: the upstream has installed its body and
\* answers with the entity; return response.data.meta_data
UpstreamPut(r) ==
  /\ disp[r].pc = "awaiting"
  /\ KindOf(r) \in {"metaSet", "metaDelete"}
  /\ Len(disp[r].calls) = 2
  /\ store' = Installed(store, disp[r].calls[2])
  /\ disp' = [disp EXCEPT ![r].pc = "done", ![r].replies = @ + 1,
                          ![r].result = store']
  /\ UNCHANGED <<proc, entry, defaults, mode, wire, out, sseConnections, streams>>

\* what another writer of the same product leaves
ExternalSeqs == {<<>>, <<[key |-> "k2", value |-> "v2"]>>}

\* another client of the upstream writes the product's meta_data
ExternalWrite(meta) ==
  /\ store # meta
  /\ store' = meta
  /\ UNCHANGED <<proc, entry, defaults, mode, disp, wire, out, sseConnections, streams>>

\* the meta requests of the two slots, all on the same product
MetaRequests(r) ==
  LET i == IF r \in Solo THEN "id-1" ELSE "id-2"
      req(m, S, mk, mv) == [payload |-> "ok", id |-> i, method |-> m, hasParams |-> TRUE,
                            params |-> Args(S, mk, mv)]
  IN  IF r \in Solo
        THEN {req("create_product_meta", {"productId", "metaKey", "metaValue"}, "k1", "v1"),
              req("delete_product_meta", {"productId", "metaKey"}, "k2", "v1")}
        ELSE {req("create_product_meta", {"productId", "metaKey", "metaValue"}, "k2", "v1"),
              req("update_product_meta", {"productId", "metaKey", "metaValue"}, "k1", "v2")}

InitMeta ==
  /\ entry = "index"
  /\ mode = "http"
  /\ defaults = EnvVal
  /\ disp = [r \in Reqs |-> Idle]
  /\ wire = [r \in Reqs |-> NoWire]
  /\ out = [r \in Reqs |-> <<>>]
  /\ sseConnections = EmptyObj
  /\ streams = EmptyObj
  /\ store \in ExternalSeqs
  /\ proc = Running

NextMeta ==
  \/ \E r \in Reqs : \E req \in MetaRequests(r) : Receive(r, "http", req)
  \/ \E r \in Reqs : UpstreamGet(r)
  \/ \E r \in Reqs : UpstreamPut(r)
  \/ \E meta \in ExternalSeqs : ExternalWrite(meta)
  \/ \E r \in Reqs, error \in {e \in UpstreamErrors : e.status = "500" /\ e.bodyMessage = Undef} :
       ReplyError(r, error)
  \/ \E r \in Reqs : Respond(r)

SpecMeta == InitMeta /\ [][NextMeta]_vars

----
\* Requests that carry params.filters

\* the keys a filters object may carry: one the cases do not set themselves,
\* and two that the query already has
FilterVal == [status |-> "publish", per_page |-> "50", consumer_key |-> "ck_filter"]

FilterObjs == {[k \in S |-> FilterVal[k]] : S \in SUBSET DOMAIN FilterVal}

\* list and report methods whose query ends with ...params.filters
FilterMethods == {"get_products", "get_orders", "get_sales_report", "get_shipping_zones"}

\* with and without perPage / page, with and without filters
FilterInputs(method) ==
  LET plain == {Args(S, "k1", "v1") : S \in SUBSET {"perPage", "page"}}
  IN  plain \cup {Spread(p, [filters |-> f]) : p \in plain, f \in FilterObjs}

InitFilters ==
  /\ entry \in {"index", "sse"}
  /\ defaults = EnvVal
  /\ mode = "http"
  /\ Quiet

NextFilters ==
  \/ \E r \in Solo, method \in FilterMethods : \E params \in FilterInputs(method) :
       Dispatch(r, method, params)
  \/ \E r \in Solo : ReplyData(r)
  \/ \E r \in Solo, error \in UpstreamErrors : ReplyError(r, error)
  \/ \E r \in Solo : Finish(r)

SpecFilters == InitFilters /\ [][NextFilters]_vars

----
\* The second /events/:channel handler of src/sse-server.ts (781-868): it
\* streams the channel's data once, then every 30 seconds.  A stream's record
\* also has: closed (the client's connection has closed), listening (the
\* close listener is registered), timer (the interval is set), fetching (the
\* streamData call outstanding: "none", "initial" or "tick")

EventChannels == Channels \cup {"news"}

\* how many messages one stream of this handler is sent
MaxStream == 3

\* the switch (channel) of streamData
StreamRequest(channel) ==
  IF channel \in {"products", "woocommerce"}
    THEN [method |-> "get_products", params |-> [perPage |-> "5", page |-> "1"]]
  ELSE IF channel = "orders"
    THEN [method |-> "get_orders", params |-> [perPage |-> "5", page |-> "1"]]
  ELSE [method |-> "get_products", params |-> [perPage |-> "3", page |-> "1"]]

\* streamData up to its await: the dispatch throws at once, or its call is out
StreamStarts(channel) ==
  handleWooCommerceRequest("sse", StreamRequest(channel).method,
                           StreamRequest(channel).params, defaults).pc = "awaiting"

\* GET /events/:channel up to the first suspension of await streamData();
\* when streamData ends without suspending on a call, the handler goes on to
\* setInterval and req.on("close") before any other event is served
ConnectStreaming(c, channel) ==
  /\ entry = "sse" /\ mode = "http"
  /\ c \notin DOMAIN streams
  /\ sseConnections' =
       [ch \in DOMAIN sseConnections \cup {channel} |->
          IF ch = channel
            THEN Append(IF ch \in DOMAIN sseConnections THEN sseConnections[ch] ELSE <<>>, c)
            ELSE sseConnections[ch]]
  /\ streams' = [x \in DOMAIN streams \cup {c} |->
                   IF x # c THEN streams[x]
                   ELSE IF StreamStarts(channel)
                     THEN [channel |-> channel, throws |-> FALSE,
                           written |-> <<"connected">>, closed |-> FALSE,
                           listening |-> FALSE, timer |-> FALSE, fetching |-> "initial"]
                     ELSE [channel |-> channel, throws |-> FALSE,
                           written |-> <<"connected", "error">>, closed |-> FALSE,
                           listening |-> TRUE, timer |-> TRUE, fetching |-> "none"]]
  /\ UNCHANGED <<proc, entry, defaults, mode, disp, wire, out, store>>

\* the call of streamData settles: the data or the error is written; after
\* the initial one the handler sets the interval and registers the listener
StreamSettles(c, ok) ==
  /\ c \in DOMAIN streams
  /\ streams[c].fetching # "none"
  /\ streams' = [streams EXCEPT
                   ![c].written = Append(@, IF ok THEN "data_stream" ELSE "error"),
                   ![c].fetching = "none",
                   ![c].timer = IF streams[c].fetching = "initial" THEN TRUE ELSE @,
                   ![c].listening = TRUE]
  /\ UNCHANGED <<proc, entry, defaults, mode, disp, wire, out, sseConnections, store>>

\* the interval fires: streamData runs again
Tick(c) ==
  /\ c \in DOMAIN streams
  /\ streams[c].timer
  /\ streams[c].fetching = "none"
  /\ Len(streams[c].written) < MaxStream
  /\ streams' = IF StreamStarts(streams[c].channel)
                  THEN [streams EXCEPT ![c].fetching = "tick"]
                  ELSE [streams EXCEPT ![c].written = Append(@, "error")]
  /\ UNCHANGED <<proc, entry, defaults, mode, disp, wire, out, sseConnections, store>>

\* the client's connection closes: req emits "close" once, to the listeners
\* registered by then
CloseEvent(c) ==
  /\ c \in DOMAIN streams
  /\ ~streams[c].closed
  /\ IF streams[c].listening
       THEN /\ streams' = [streams EXCEPT ![c].closed = TRUE, ![c].timer = FALSE]
            /\ LET channel == streams[c].channel
                   index == indexOf(sseConnections[channel], c)
               IN  sseConnections' =
                     IF index # 0
                       THEN [sseConnections EXCEPT ![channel] = splice(@, index)]
                       ELSE sseConnections
       ELSE /\ streams' = [streams EXCEPT ![c].closed = TRUE]
            /\ UNCHANGED sseConnections
  /\ UNCHANGED <<proc, entry, defaults, mode, disp, wire, out, store>>

\* the mutations sent while streams are open
EventRequests ==
  {[payload |-> "ok", id |-> "id-1", method |-> "create_product", hasParams |-> TRUE,
    params |-> Args({"productData"}, "k1", "v1")]}

InitEvents ==
  /\ entry = "sse"
  /\ mode = "http"
  /\ defaults \in AdapterDefaults
  /\ Quiet

NextEvents ==
  \/ \E c \in Conns, channel \in EventChannels : ConnectStreaming(c, channel)
  \/ \E c \in Conns, ok \in BOOLEAN : StreamSettles(c, ok)
  \/ \E c \in Conns : Tick(c)
  \/ \E c \in Conns : CloseEvent(c)
  \/ \E r \in Solo : \E req \in EventRequests :
       /\ \A c \in DOMAIN streams : Len(streams[c].written) < MaxStream
       /\ Receive(r, "api", req)
  \/ \E r \in Solo : ReplyData(r)
  \/ \E r \in Solo, error \in {e \in UpstreamErrors : e.status = "500" /\ e.bodyMessage = Undef} :
       ReplyError(r, error)
  \/ \E r \in Solo : Respond(r)

SpecEvents == InitEvents /\ [][NextEvents]_vars

----
\* Requests of the delete cases of src/index.ts that send force

\* the delete cases whose call has a force query parameter
ForceMethods ==
  {m \in DOMAIN IndexCases :
     \E i \in 1..Len(IndexCases[m].query) : IndexCases[m].query[i].key = "force"}

\* params.force: a boolean, or absent
ForceInputs(method) ==
  LET base == Args(Varied(method), "k1", "v1")
  IN  {base} \cup {Spread(base, [force |-> v]) : v \in {"true", "false"}}

InitForce ==
  /\ entry = "index"
  /\ defaults = EnvVal
  /\ mode = "http"
  /\ Quiet

NextForce ==
  \/ \E r \in Solo, method \in ForceMethods : \E params \in ForceInputs(method) :
       Dispatch(r, method, params)
  \/ \E r \in Solo : ReplyData(r)
  \/ \E r \in Solo, error \in UpstreamErrors : ReplyError(r, error)
  \/ \E r \in Solo : Finish(r)

SpecForce == InitForce /\ [][NextForce]_vars

----
\* Shutdown of the HTTP/SSE server of src/sse-server.ts (955-971)

Signals == {"SIGTERM", "SIGINT"}

\* the server has no open connection left
Drained == \A c \in DOMAIN streams : streams[c].closed

\* gracefulShutdown(signal): server.close(callback) stops listening and
\* setTimeout arms the 10-second force timer; a later signal does the same
\* to a server that no longer listens
Signal(sig) ==
  /\ proc.phase \in {"running", "closing"}
  /\ proc' = [proc EXCEPT !.phase = "closing", !.signal = sig]
  /\ UNCHANGED <<entry, defaults, mode, disp, wire, out, sseConnections, streams, store>>

\* the callback of server.close: every connection has ended; process.exit(0)
ServerClosed ==
  /\ proc.phase = "closing"
  /\ Drained
  /\ proc' = [proc EXCEPT !.phase = "exited", !.code = "0"]
  /\ UNCHANGED <<entry, defaults, mode, disp, wire, out, sseConnections, streams, store>>

\* a force timer that was cleared before it fired
ForceTimerCleared ==
  /\ FALSE
  /\ UNCHANGED vars

\* the force timer fires: process.exit(1)
ForceTimer ==
  /\ proc.phase = "closing"
  /\ proc' = [proc EXCEPT !.phase = "exited", !.code = "1"]
  /\ UNCHANGED <<entry, defaults, mode, disp, wire, out, sseConnections, streams, store>>

\* a connection to GET /events/:channel is accepted while the server listens
Accept(c, channel) ==
  /\ proc.phase = "running"
  /\ ConnectStreaming(c, channel)

\* the events of open connections are served until the process exits
Serve(c) ==
  /\ proc.phase # "exited"
  /\ \/ \E ok \in BOOLEAN : StreamSettles(c, ok)
     \/ CloseEvent(c)

InitShutdown ==
  /\ entry = "sse"
  /\ mode = "http"
  /\ defaults \in AdapterDefaults
  /\ Quiet

NextShutdown ==
  \/ \E c \in Conns, channel \in EventChannels : Accept(c, channel)
  \/ \E c \in Conns : Serve(c)
  \/ \E sig \in Signals : Signal(sig)
  \/ ServerClosed
  \/ ForceTimer

\* timers fire and callbacks of finished operations run
SpecShutdown ==
  InitShutdown /\ [][NextShutdown]_vars /\ WF_vars(ServerClosed) /\ WF_vars(ForceTimer)

----
\* Properties of the dispatcher

Active == {r \in Reqs : disp[r].pc # "idle"}

\* the claims' reading of the fallback chain: params.<field> if present and
\* non-empty, else the process-wide default
Chosen(r, f) ==
  IF f \in DOMAIN disp[r].params /\ disp[r].params[f] # ""
    THEN disp[r].params[f]
    ELSE defaults[f]

Absent(r, f) == Chosen(r, f) = ""

\* C1: a method name that is in no method list fails with "Unknown method:
\* <name>" whatever the params and the defaults are, and issues no call
C1_UnknownMethodFirst ==
  \A r \in Active :
    disp[r].method \notin wpMethods \cup wooMethods =>
      /\ disp[r].pc = "failed"
      /\ disp[r].error = Err("Unknown method: ", disp[r].method)
      /\ disp[r].calls = <<>>

\* C2: every resolved field is the request's value when present and
\* non-empty and the default otherwise, and the issued call carries these
\* values: the site in the base URL, the pair of its family as credentials
C2_RequestOverridesDefault ==
  \A r \in Active :
    /\ \A f \in CredFields : disp[r].cred[f] = Chosen(r, f)
    /\ \A i \in 1..Len(disp[r].calls) :
         LET call == disp[r].calls[i]
         IN  /\ call.site = Chosen(r, "siteUrl")
             /\ (entry = "index" /\ disp[r].method \in wooMethods) =>
                   /\ call.query["consumer_key"] = Chosen(r, "consumerKey")
                   /\ call.query["consumer_secret"] = Chosen(r, "consumerSecret")
             /\ (entry = "index" /\ disp[r].method \in wpMethods) =>
                   call.Authorization.credentials =
                     [b64 |-> <<Chosen(r, "username"), ":", Chosen(r, "password")>>]
             /\ entry = "sse" =>
                   call.Authorization.credentials =
                     [b64 |-> <<Chosen(r, "consumerKey"), ":", Chosen(r, "consumerSecret")>>]

\* C2 witness: a call is out whose site and consumer key are the request's
\* although both defaults are set, and whose secret is the default because
\* the request's is the empty string
C2_Witness ==
  \E r \in Active :
    /\ entry = "index" /\ disp[r].method = "get_products" /\ disp[r].pc = "awaiting"
    /\ defaults.siteUrl = EnvVal.siteUrl /\ defaults.consumerKey = EnvVal.consumerKey
    /\ Get(disp[r].params, "siteUrl") = ReqVal.siteUrl
    /\ Get(disp[r].params, "consumerKey") = ReqVal.consumerKey
    /\ Get(disp[r].params, "consumerSecret") = ""
    /\ disp[r].calls[1].site = ReqVal.siteUrl
    /\ disp[r].calls[1].query["consumer_key"] = ReqVal.consumerKey
    /\ disp[r].calls[1].query["consumer_secret"] = EnvVal.consumerSecret

\* C3: in each entry file, a WooCommerce-family method the file dispatches
\* (its site URL resolved) fails with the store-credentials error exactly
\* when the consumer key or the consumer secret is absent from both sources
C3_StoreCredentialsEveryEntry ==
  \A r \in Active :
    (/\ disp[r].method \in wooMethods
     /\ disp[r].method \in DOMAIN Cases(entry)
     /\ ~Absent(r, "siteUrl")) =>
      ((disp[r].pc = "failed" /\ disp[r].error = MsgWooCred)
         <=> (Absent(r, "consumerKey") \/ Absent(r, "consumerSecret")))

\* C4: in src/index.ts a WordPress-family method (its site URL resolved)
\* fails with the content-credentials error exactly when username or
\* password is absent from both sources, whatever the consumer key and
\* secret are, and a WooCommerce-family method never fails with that error
C4_ContentCredentials ==
  \A r \in Active :
    (entry = "index" /\ ~Absent(r, "siteUrl")) =>
      /\ disp[r].method \in wpMethods =>
           ((disp[r].pc = "failed" /\ disp[r].error = MsgWpCred)
              <=> (Absent(r, "username") \/ Absent(r, "password")))
      /\ disp[r].method \in wooMethods => disp[r].error # MsgWpCred

\* C4 witness: create_post has failed for its missing password although
\* the username and both consumer credentials are resolved
C4_Witness ==
  \E r \in Active :
    /\ entry = "index" /\ disp[r].method = "create_post"
    /\ ~Absent(r, "siteUrl") /\ ~Absent(r, "username") /\ Absent(r, "password")
    /\ ~Absent(r, "consumerKey") /\ ~Absent(r, "consumerSecret")
    /\ disp[r].pc = "failed" /\ disp[r].error = MsgWpCred /\ disp[r].calls = <<>>

\* C5: with the site URL absent from the request and from the defaults, the
\* dispatch of a method the entry file knows fails with the site-URL error
\* and issues no call
C5_MissingSiteUrl ==
  \A r \in Active :
    (disp[r].method \in DOMAIN Cases(entry) /\ Absent(r, "siteUrl")) =>
      /\ disp[r].pc = "failed"
      /\ disp[r].error = MsgSiteUrl
      /\ disp[r].calls = <<>> /\ disp[r].replies = 0

\* C5 witness: get_products has failed for the site URL alone, every other
\* credential being supplied by the request
C5_Witness ==
  \E r \in Active :
    /\ disp[r].method = "get_products" /\ Absent(r, "siteUrl")
    /\ \A f \in CredFields \ {"siteUrl"} : Get(disp[r].params, f) = ReqVal[f]
    /\ disp[r].pc = "failed" /\ disp[r].error = MsgSiteUrl


\* the dispatch of r is of a method the entry file knows
Known(r) == disp[r].method \in DOMAIN Cases(entry)

CaseOf(r) == Cases(entry)[disp[r].method]

\* the credentials the entry file demands for the method of r are resolved
CredsResolved(r) ==
  /\ ~Absent(r, "siteUrl")
  /\ (entry = "index" /\ disp[r].method \in wpMethods) =>
       (~Absent(r, "username") /\ ~Absent(r, "password"))
  /\ (entry = "index" /\ disp[r].method \in wooMethods) =>
       (~Absent(r, "consumerKey") /\ ~Absent(r, "consumerSecret"))

\* the required parameters of the method of r in declared order: the
\* schema's `required` list where the tool has one, else the guards' order
RECURSIVE Flatten(_)
Flatten(checks) ==
  IF checks = <<>> THEN <<>> ELSE Head(checks).fields \o Flatten(Tail(checks))

DeclaredRequired(r) ==
  IF entry = "index" /\ disp[r].method \in DOMAIN ToolRequired
    THEN ToolRequired[disp[r].method]
    ELSE Flatten(CaseOf(r).checks)

MissingAt(r) ==
  {i \in 1..Len(DeclaredRequired(r)) : DeclaredRequired(r)[i] \notin DOMAIN disp[r].params}

FirstMissing(r) ==
  DeclaredRequired(r)[CHOOSE i \in MissingAt(r) : \A j \in MissingAt(r) : i <= j]

\* the message of the guard that names parameter f
MessageFor(r, f) ==
  LET ck == CaseOf(r).checks
      k  == CHOOSE k \in 1..Len(ck) : \E j \in 1..Len(ck[k].fields) : ck[k].fields[j] = f
  IN  ck[k].msg

\* C6: a known method with resolved credentials and a required parameter
\* missing fails with the message for the first missing parameter in
\* declared order, and no upstream call is issued (update_order: orderId
\* before orderData)
C6_FirstMissingParameter ==
  \A r \in Active :
    (Known(r) /\ CredsResolved(r) /\ MissingAt(r) # {}) =>
      /\ disp[r].pc = "failed"
      /\ disp[r].error = Err(MessageFor(r, FirstMissing(r)), "")
      /\ disp[r].calls = <<>> /\ disp[r].replies = 0
      /\ (entry = "index" /\ disp[r].method = "update_order"
            /\ "orderId" \notin DOMAIN disp[r].params) =>
           disp[r].error.text = "Order ID is required for updating an order"

\* C6 witness: update_order with neither orderId nor orderData has failed
\* for orderId, credentials resolved, nothing sent
C6_Witness ==
  \E r \in Active :
    /\ entry = "index" /\ disp[r].method = "update_order" /\ CredsResolved(r)
    /\ "orderId" \notin DOMAIN disp[r].params
    /\ "orderData" \notin DOMAIN disp[r].params
    /\ disp[r].pc = "failed" /\ disp[r].calls = <<>>
    /\ disp[r].error.text = "Order ID is required for updating an order"

\* every guard of the case of r passes
ValidParams(r) ==
  \A i \in 1..Len(CaseOf(r).checks) :
    \A j \in 1..Len(CaseOf(r).checks[i].fields) :
      LET v == Get(disp[r].params, CaseOf(r).checks[i].fields[j])
      IN  IF CaseOf(r).checks[i].test = "falsy" THEN v \notin Falsy ELSE v # Undef

IsMetaWrite(r) == CaseOf(r).kind \in {"metaSet", "metaDelete"}

ExpectedCalls(r) == IF IsMetaWrite(r) THEN 2 ELSE 1

\* C7: a known method with valid params and resolved credentials issues its
\* declared call, verb and path; a finished dispatch has issued exactly one
\* call, or exactly two for create/update/delete meta: a GET of the entity
\* and a PUT to the same path, the PUT only once the GET was answered
C7_OneOrTwoCalls ==
  \A r \in Active :
    (Known(r) /\ CredsResolved(r) /\ ValidParams(r)) =>
      /\ Len(disp[r].calls) >= 1
      /\ Len(disp[r].calls) <= ExpectedCalls(r)
      /\ Len(disp[r].calls) <= disp[r].replies + 1
      /\ disp[r].calls[1].verb = CaseOf(r).verb
      /\ disp[r].calls[1].path = PathOf(CaseOf(r), disp[r].params)
      /\ disp[r].pc = "done" =>
           (Len(disp[r].calls) = ExpectedCalls(r) /\ disp[r].replies = ExpectedCalls(r))
      /\ (IsMetaWrite(r) /\ Len(disp[r].calls) = 2) =>
           /\ disp[r].calls[1].verb = "get" /\ disp[r].calls[2].verb = "put"
           /\ disp[r].calls[2].path = disp[r].calls[1].path
           /\ disp[r].calls[2].site = disp[r].calls[1].site
           /\ disp[r].calls[2].api = disp[r].calls[1].api
           /\ disp[r].replies >= 1
      /\ disp[r].method = "update_order" =>
           (disp[r].calls[1].verb = "put"
              /\ disp[r].calls[1].path = <<"orders", disp[r].params["orderId"]>>)
      /\ disp[r].method = "delete_customer_meta" =>
           disp[r].calls[1].path = <<"customers", disp[r].params["customerId"]>>

\* C7 witness: delete_order_meta is done after a GET and a PUT of /orders/<id>
C7_Witness ==
  \E r \in Active :
    /\ disp[r].method = "delete_order_meta" /\ disp[r].pc = "done"
    /\ Len(disp[r].calls) = 2 /\ disp[r].replies = 2
    /\ disp[r].calls[1].verb = "get" /\ disp[r].calls[2].verb = "put"
    /\ disp[r].calls[2].path = <<"orders", disp[r].params["orderId"]>>

\* the keys of a meta_data sequence
KeysOf(seq) == {seq[i].key : i \in 1..Len(seq)}

\* the PUT of r is out
PutIssued(r) == Known(r) /\ IsMetaWrite(r) /\ Len(disp[r].calls) = 2

CreateMeta == {"create_product_meta", "create_order_meta", "create_customer_meta"}

UpdateMeta == {"update_product_meta", "update_order_meta", "update_customer_meta"}

DeleteMeta == {"delete_product_meta", "delete_order_meta", "delete_customer_meta"}

\* C8: create_*_meta with a key that the entity's meta_data does not have
\* PUTs the sequence the GET returned, followed by the one new entry
C8_CreateAppends ==
  \A r \in Active :
    (PutIssued(r) /\ disp[r].method \in CreateMeta
       /\ disp[r].params["metaKey"] \notin KeysOf(disp[r].got)) =>
      disp[r].calls[2].body.meta_data =
        disp[r].got \o <<[key |-> disp[r].params["metaKey"],
                          value |-> disp[r].params["metaValue"]]>>

\* C8 witness: create_product_meta of key k2 on an entity whose meta_data
\* has entries, none with k2; the PUT is out
C8_Witness ==
  \E r \in Active :
    /\ PutIssued(r) /\ disp[r].method = "create_product_meta"
    /\ disp[r].params["metaKey"] = "k2"
    /\ Len(disp[r].got) = MaxMeta /\ KeysOf(disp[r].got) = {"k1"}
    /\ Len(disp[r].calls[2].body.meta_data) = MaxMeta + 1

\* the position of the first entry with the key
FirstWithKey(seq, key) ==
  CHOOSE i \in 1..Len(seq) : seq[i].key = key /\ \A j \in 1..(i - 1) : seq[j].key # key

\* C9: update_*_meta on a key the entity's meta_data has PUTs a sequence
\* of the same length, the (first) entry with the key carrying the new
\* value at its position, every other entry as the GET returned it
C9_UpdateInPlace ==
  \A r \in Active :
    (PutIssued(r) /\ disp[r].method \in UpdateMeta
       /\ disp[r].params["metaKey"] \in KeysOf(disp[r].got)) =>
      LET put == disp[r].calls[2].body.meta_data
          at  == FirstWithKey(disp[r].got, disp[r].params["metaKey"])
      IN  /\ Len(put) = Len(disp[r].got)
          /\ put[at] = [key |-> disp[r].params["metaKey"],
                        value |-> disp[r].params["metaValue"]]
          /\ \A i \in 1..Len(put) : i # at => put[i] = disp[r].got[i]

\* C9 witness: update_product_meta gives the first of MaxMeta entries, key
\* k1 and value v1, the value v2; the PUT is out
C9_Witness ==
  \E r \in Active :
    /\ PutIssued(r) /\ disp[r].method = "update_product_meta"
    /\ Len(disp[r].got) = MaxMeta
    /\ disp[r].got[1] = [key |-> "k1", value |-> "v1"]
    /\ disp[r].params["metaKey"] = "k1" /\ disp[r].params["metaValue"] = "v2"
    /\ disp[r].calls[2].body.meta_data[1].value = "v2"

\* the positions of the GET's entries that have another key than metaKey
KeptAt(r) ==
  {i \in 1..Len(disp[r].got) : disp[r].got[i].key # disp[r].params["metaKey"]}

\* C10: delete_*_meta PUTs the sequence the GET returned without the
\* entries whose key is metaKey: the others unchanged, in their order, and
\* the whole sequence when no entry has the key
C10_DeleteRemovesAll ==
  \A r \in Active :
    (PutIssued(r) /\ disp[r].method \in DeleteMeta) =>
      LET put == disp[r].calls[2].body.meta_data
      IN  /\ Len(put) = Cardinality(KeptAt(r))
          /\ \A i \in KeptAt(r) :
               put[Cardinality({j \in KeptAt(r) : j <= i})] = disp[r].got[i]
          /\ disp[r].params["metaKey"] \notin KeysOf(disp[r].got) => put = disp[r].got

\* C10 witness: delete_customer_meta of k1 on an entity whose meta_data has
\* MaxMeta entries, all with key k1; the PUT carries the empty sequence
C10_Witness ==
  \E r \in Active :
    /\ PutIssued(r) /\ disp[r].method = "delete_customer_meta"
    /\ disp[r].params["metaKey"] = "k1"
    /\ Len(disp[r].got) = MaxMeta /\ KeysOf(disp[r].got) = {"k1"}
    /\ disp[r].calls[2].body.meta_data = <<>>

----
\* Properties of the upstream call

\* the keys of a call's query string
QueryKeys(call) ==
  IF entry = "index" THEN DOMAIN call.query
  ELSE {call.query[i].key : i \in 1..Len(call.query)}

\* the value a call's query string gives a key ("undefined" without it)
QueryGet(call, k) ==
  IF entry = "index" THEN Get(call.query, k)
  ELSE IF \E i \in 1..Len(call.query) : call.query[i].key = k
    THEN call.query[CHOOSE i \in 1..Len(call.query) : call.query[i].key = k].value
    ELSE Undef

\* C15: in every entry file a WordPress-family call goes to /wp-json/wp/v2
\* with Authorization: Basic base64(username:password) and no consumer key
\* in the query, and a WooCommerce-family call goes to /wp-json/wc/v3 with
\* consumer_key and consumer_secret in the query and no Authorization header
C15_FamilyFixesAuth ==
  \A r \in Active :
    \A i \in 1..Len(disp[r].calls) :
      LET call == disp[r].calls[i]
      IN  /\ call.site = disp[r].cred.siteUrl
          /\ disp[r].method \in wpMethods =>
               /\ call.api = "/wp-json/wp/v2"
               /\ call.Authorization =
                    [scheme |-> "Basic",
                     credentials |-> [b64 |-> <<disp[r].cred.username, ":",
                                                disp[r].cred.password>>]]
               /\ "consumer_key" \notin QueryKeys(call)
               /\ "consumer_secret" \notin QueryKeys(call)
          /\ disp[r].method \in wooMethods =>
               /\ call.api = "/wp-json/wc/v3"
               /\ QueryGet(call, "consumer_key") = disp[r].cred.consumerKey
               /\ QueryGet(call, "consumer_secret") = disp[r].cred.consumerSecret
               /\ call.Authorization.scheme = "none"

\* the methods the claim calls list-shaped: those that paginate in
\* src/index.ts, and get_shipping_zones
ListShaped ==
  {m \in DOMAIN IndexCases :
     \E i \in 1..Len(IndexCases[m].query) : IndexCases[m].query[i].key = "per_page"}
    \cup {"get_shipping_zones"}

\* C16: in every entry file that dispatches it, the call of a list-shaped
\* method carries per_page = the caller's perPage, or 10 when omitted, and
\* page = the caller's page, or 1 when omitted
C16_PaginationDefaults ==
  \A r \in Active :
    (disp[r].method \in ListShaped /\ disp[r].calls # <<>>) =>
      LET call == disp[r].calls[1]
      IN  /\ QueryGet(call, "per_page") =
               (IF "perPage" \in DOMAIN disp[r].params
                  THEN disp[r].params["perPage"] ELSE "10")
          /\ QueryGet(call, "page") =
               (IF "page" \in DOMAIN disp[r].params
                  THEN disp[r].params["page"] ELSE "1")

----
\* Properties of the transports

\* the slots whose request came over a JSON-RPC transport
Framed == {r \in Reqs : wire[r].transport \in {"http", "stdio"}}

\* { jsonrpc: "2.0", id: null, error: { code: -32700, ... } }
IsParseError(resp) ==
  /\ DOMAIN resp = {"jsonrpc", "id", "error"}
  /\ resp.jsonrpc = "2.0" /\ resp.id = "null" /\ resp.error.code = -32700

\* C11: on POST /message and on the stdin line reader, a payload that is
\* not JSON or whose jsonrpc is not "2.0" is answered with one response
\* {jsonrpc: "2.0", id: null, error: {code: -32700}} and no dispatch is made
C11_ParseErrorEveryTransport ==
  \A r \in Framed :
    wire[r].payload \in {"malformed", "badversion"} =>
      /\ disp[r].pc = "idle"
      /\ Len(out[r]) = 1
      /\ IsParseError(out[r][1])

\* the dispatch of the slot succeeded / failed
Succeeded(r) == disp[r].pc \in {"done", "answered"} /\ disp[r].error = NoError

Failed(r) == disp[r].pc \in {"failed", "answered"} /\ disp[r].error # NoError

\* C12: a response to a request that passed the envelope parsing has
\* jsonrpc "2.0", the request's id and exactly one of result and error; for
\* a dispatch that succeeded result is its return value, for one that failed
\* error has code -32000 and the failure's message
C12_ResponseEnvelope ==
  \A r \in Framed :
    wire[r].payload = "ok" =>
      \A i \in 1..Len(out[r]) :
        LET resp == out[r][i]
        IN  /\ resp.jsonrpc = "2.0"
            /\ Get(resp, "id") = wire[r].id
            /\ ("result" \in DOMAIN resp) # ("error" \in DOMAIN resp)
            /\ Succeeded(r) =>
                 "result" \in DOMAIN resp /\ resp.result = disp[r].result
            /\ Failed(r) =>
                 /\ "error" \in DOMAIN resp
                 /\ resp.error.code = -32000
                 /\ resp.error.message = disp[r].error

\* C12 witness: a get_product_meta sent with id "id-2" was answered with
\* its result, the one entry of key k1 out of the two the GET returned
C12_Witness ==
  \E r \in Framed :
    /\ wire[r].payload = "ok" /\ wire[r].id = "id-2" /\ disp[r].pc = "answered"
    /\ disp[r].method = "get_product_meta" /\ Len(disp[r].got) = 2
    /\ Len(out[r]) = 1
    /\ DOMAIN out[r][1] = {"jsonrpc", "id", "result"}
    /\ out[r][1].id = "id-2"
    /\ Len(out[r][1].result) = 1

\* the failure's message carries m
Mentions(error, m) == error.text = m \/ error.arg = m

\* C13: a dispatch whose upstream call failed fails with a message made of
\* the response body's message when the body has one, of the transport
\* error's message otherwise (a response without message, no response); a
\* JSON-RPC transport reports it with code -32000 whatever the status was
C13_UpstreamErrorMessage ==
  \A r \in Reqs :
    disp[r].rejection # NoRejection =>
      /\ Failed(r)
      /\ IF disp[r].rejection.hasResponse /\ disp[r].rejection.bodyMessage # Undef
           THEN Mentions(disp[r].error, disp[r].rejection.bodyMessage)
           ELSE Mentions(disp[r].error, disp[r].rejection.message)
      /\ (r \in Framed /\ disp[r].pc = "answered") =>
           /\ Len(out[r]) = 1
           /\ "error" \in DOMAIN out[r][1]
           /\ out[r][1].error.code = -32000
           /\ out[r][1].error.message = disp[r].error

\* C13 witness: an upstream 404 whose body has a message was reported as
\* -32000 "API error: upstream message"
C13_Witness ==
  \E r \in Framed :
    /\ disp[r].pc = "answered" /\ disp[r].rejection.status = "404"
    /\ disp[r].rejection.bodyMessage = "upstream message"
    /\ Len(out[r]) = 1
    /\ "error" \in DOMAIN out[r][1]
    /\ out[r][1].error.code = -32000
    /\ out[r][1].error.message = Err("API error: ", "upstream message")

\* C17: on POST /message and on the stdin line reader, initialize and
\* tools/list are answered with the static metadata / the tool list before
\* the dispatcher is reached, for any params and any defaults, without an
\* upstream call
C17_IntrospectionEveryTransport ==
  \A r \in Framed :
    (wire[r].payload = "ok" /\ wire[r].method \in {"initialize", "tools/list"}) =>
      /\ disp[r].pc = "idle"
      /\ Len(out[r]) = 1
      /\ "result" \in DOMAIN out[r][1]
      /\ out[r][1].result =
           (IF wire[r].method = "initialize" THEN handleMcpInitialization
            ELSE handleListTools)

\* a JSON-RPC response object
IsJsonRpc(resp) ==
  /\ "jsonrpc" \in DOMAIN resp
  /\ ("result" \in DOMAIN resp) # ("error" \in DOMAIN resp)

\* C18: whatever a request on POST /message or on the stdin line reader
\* holds, exactly one JSON-RPC response object is written for it: none
\* while its dispatch is in flight, one once it is over
C18_OneResponsePerRequest ==
  \A r \in Framed :
    IF disp[r].pc \in {"idle", "answered"}
      THEN Len(out[r]) = 1 /\ IsJsonRpc(out[r][1])
      ELSE out[r] = <<>>

----
\* Properties of concurrent requests

\* what the dispatcher does with the request of the slot, taken alone, up
\* to its first await
Alone(r) ==
  IF wire[r].hasParams \/ wire[r].transport = "api"
    THEN handleWooCommerceRequest(entry, wire[r].method, wire[r].params, defaults)
    ELSE Thrown(NoCred, MsgTypeError)

\* the credential the request of the slot asks for: its own, else the default
OwnChoice(r, f) ==
  IF f \in DOMAIN wire[r].params /\ wire[r].params[f] # ""
    THEN wire[r].params[f]
    ELSE defaults[f]

\* what the slot has of its request: the dispatch, the request, the responses
SlotState(r) == <<disp[r], wire[r], out[r]>>

\* every slot holds what its own request, its own upstream replies and the
\* defaults give, whatever the other slot did
EachAlone ==
  \A r \in Reqs :
    /\ (wire[r].transport # "none" /\ disp[r].pc = "idle") =>
         wire[r].payload \in {"malformed", "badversion"} /\ Len(out[r]) = 1
    /\ (wire[r].transport # "none" /\ disp[r].pc # "idle") =>
         /\ \A f \in CredFields : disp[r].cred[f] = OwnChoice(r, f)
         /\ disp[r].calls = Alone(r).calls
         /\ \A i \in 1..Len(disp[r].calls) :
              /\ disp[r].calls[i].site = OwnChoice(r, "siteUrl")
              /\ disp[r].calls[i].body = Get(wire[r].params, "productData")
         /\ disp[r].rejection = NoRejection /\ disp[r].pc # "awaiting" =>
              /\ disp[r].error = Alone(r).error
              /\ disp[r].result = (IF disp[r].calls # <<>> THEN UpstreamData ELSE Undef)
         /\ disp[r].rejection # NoRejection =>
              Mentions(disp[r].error, disp[r].rejection.message)
                \/ Mentions(disp[r].error, disp[r].rejection.bodyMessage)
         /\ disp[r].pc = "answered" =>
              /\ Len(out[r]) = 1
              /\ r \in Framed =>
                   /\ Get(out[r][1], "id") = wire[r].id
                   /\ Succeeded(r) =>
                        "result" \in DOMAIN out[r][1] /\ out[r][1].result = disp[r].result
                   /\ Failed(r) =>
                        "error" \in DOMAIN out[r][1]
                          /\ out[r][1].error.message = disp[r].error
         /\ disp[r].pc \in {"awaiting", "done", "failed"} => out[r] = <<>>

\* a step of one slot leaves the other slot as it was
OneSlotAtATime ==
  \A a \in Reqs : \A b \in Reqs \ {a} :
    SlotState(a)' # SlotState(a) => SlotState(b)' = SlotState(b)

\* C14: with two requests in flight in any interleaving, the calls issued
\* for a request (site, credentials, query, body) and its response are those
\* of the request taken alone, whether the other request fails (malformed
\* body, unknown method, missing credential or parameter, upstream error) or
\* not; credentials of one request's params are never used for the other,
\* and nothing of a failure is left for a later request
C14_Isolation == [](EachAlone) /\ [][OneSlotAtATime]_vars

\* C14 witness: the first request, sent with its own credentials, has failed
\* upstream with a 500, and the second, sent without credentials while the
\* defaults are set, is answered with its result, its call carrying the
\* default site and consumer key
C14_Witness ==
  /\ entry = "index" /\ defaults = EnvVal
  /\ disp["A"].method = "get_products" /\ wire["A"].params = ReqVal
  /\ disp["A"].pc = "failed" /\ disp["A"].rejection.status = "500"
  /\ disp["B"].method = "get_products" /\ wire["B"].params = EmptyObj
  /\ disp["B"].pc = "answered" /\ Len(out["B"]) = 1
  /\ disp["B"].calls[1].site = EnvVal.siteUrl
  /\ disp["B"].calls[1].query["consumer_key"] = EnvVal.consumerKey
  /\ out["B"][1].id = "id-2"
  /\ "result" \in DOMAIN out["B"][1]

----
\* Properties of the SSE side

Members(connections) == {connections[i] : i \in 1..Len(connections)}

Kept(old, new) ==
  LET stays(c) == c \in Members(new) IN new = SelectSeq(old, stays)

\* a step of the dispatch of slot r: the request is received, an upstream call
\* settles, or the response is sent
DispatchStep(r) == disp'[r] # disp[r]

\* the step in which a broadcasting case of src/sse-server.ts returns
BroadcastStep(r) ==
  /\ entry = "sse"
  /\ disp[r].pc = "awaiting" /\ disp'[r].pc = "done"
  /\ disp'[r].result = UpstreamData
  /\ disp[r].method \in DOMAIN SseBroadcasts

MembershipFrame(r) ==
  \/ UNCHANGED <<sseConnections, streams>>
  \/ /\ BroadcastStep(r)
     /\ LET b == SseBroadcasts[disp[r].method] IN
        /\ DOMAIN sseConnections' = DOMAIN sseConnections
        /\ DOMAIN streams' = DOMAIN streams
        /\ \A ch \in DOMAIN sseConnections :
             IF ch = b.channel
               THEN /\ Kept(sseConnections[ch], sseConnections'[ch])
                    /\ \A c \in Members(sseConnections[ch]) \ Members(sseConnections'[ch]) :
                         streams[c].throws
               ELSE sseConnections'[ch] = sseConnections[ch]
        /\ \A c \in DOMAIN streams :
             \/ streams'[c] = streams[c]
             \/ /\ b.channel \in DOMAIN sseConnections
                /\ c \in Members(sseConnections[b.channel])
                /\ ~streams[c].throws
                /\ streams'[c] = [streams[c] EXCEPT !.written = Append(@, Event(b.type, disp'[r].result))]

----
\* Properties of the meta read-modify-write against the upstream

\* the step in which the PUT of slot r resolves
PutResolves(r) ==
  /\ disp[r].pc = "awaiting" /\ Len(disp[r].calls) = 2
  /\ disp'[r].pc = "done"

\* C20: the meta read-modify-write is not atomic: when the PUT of a meta
\* dispatch resolves, the upstream holds the sequence computed from what the
\* dispatch's own GET returned, whatever another writer or another meta
\* dispatch has written since, and the dispatch returns that sequence
C20_LostUpdate ==
  [][\A r \in Reqs : PutResolves(r) =>
       /\ store' = UpdatedMeta(KindOf(r), disp[r].got, disp[r].params)
       /\ disp'[r].result = store'
       /\ disp'[r].error = NoError]_vars

\* C20: two create_product_meta with keys k1 and k2 on the same product both
\* read an empty meta_data and both returned success, and the upstream holds
\* the entry of k2 only
C20_Witness ==
  /\ \A r \in Reqs : /\ disp[r].pc = "answered"
                     /\ disp[r].method = "create_product_meta"
                     /\ disp[r].got = <<>>
                     /\ disp[r].error = NoError
                     /\ Len(out[r]) = 1 /\ "result" \in DOMAIN out[r][1]
  /\ disp["A"].result = <<[key |-> "k1", value |-> "v1"]>>
  /\ disp["B"].result = <<[key |-> "k2", value |-> "v1"]>>
  /\ store = <<[key |-> "k2", value |-> "v1"]>>

----
\* Properties of failed upstream calls

\* the upstream call of slot r that was outstanding has rejected
Rejected(r) == disp[r].rejection # NoRejection

\* the step in which the outstanding call of slot r rejects
Rejects(r) == disp[r].pc = "awaiting" /\ disp'[r].rejection # NoRejection

AfterRejection ==
  \A r \in Reqs : Rejected(r) =>
    /\ disp[r].pc \in {"failed", "answered"}
    /\ Len(disp[r].calls) = disp[r].replies
    /\ \A i \in 1..Len(disp[r].calls) :
         disp[r].calls[i].verb = "put" => i = 2 /\ disp[r].replies = 2

RejectionFrame ==
  \A r \in Reqs : Rejects(r) =>
    /\ disp'[r].calls = disp[r].calls
    /\ store' = store

\* C21: once an upstream call of a dispatch has failed, every call the
\* dispatch ever issued is the failed one or one answered before it: nothing
\* is retried, a failed GET of a meta case is followed by no PUT, and the
\* failing step leaves the upstream entity as it was
C21_NoCallAfterFailure == [](AfterRejection) /\ [][RejectionFrame]_vars

\* C21: the GET of create_product_meta was rejected; the only call is that
\* GET and the upstream still holds what it held
C21_Witness ==
  /\ disp["A"].method = "create_product_meta"
  /\ disp["A"].pc = "failed" /\ Rejected("A")
  /\ Len(disp["A"].calls) = 1 /\ disp["A"].calls[1].verb = "get"
  /\ store = <<[key |-> "k2", value |-> "v2"]>>

----
\* Properties of params.filters

\* the values a call's query sends for a key
QueryValues(call, k) ==
  IF entry = "index"
    THEN (IF k \in DOMAIN call.query THEN {call.query[k]} ELSE {})
    ELSE {call.query[i].value : i \in {i \in 1..Len(call.query) : call.query[i].key = k}}

\* C22: when params.filters is present on a list or report method, every key
\* of filters is sent in the query with its value, every per_page and page
\* sent is the one chosen from params.perPage / params.page or the default,
\* and every consumer_key / consumer_secret sent is the resolved credential
C22_FiltersAdded ==
  \A r \in Active :
    (disp[r].method \in FilterMethods /\ disp[r].calls # <<>>
       /\ "filters" \in DOMAIN disp[r].params) =>
      LET call == disp[r].calls[1]
          f == disp[r].params.filters
      IN  /\ \A k \in DOMAIN f : f[k] \in QueryValues(call, k)
          /\ QueryValues(call, "per_page") \subseteq {Or(Get(disp[r].params, "perPage"), "10")}
          /\ QueryValues(call, "page") \subseteq {Or(Get(disp[r].params, "page"), "1")}
          /\ QueryValues(call, "consumer_key") \subseteq {disp[r].cred.consumerKey}
          /\ QueryValues(call, "consumer_secret") \subseteq {disp[r].cred.consumerSecret}

----
\* Properties of tools/list and initialize (src/index.ts)

\* dispatch accepts a method: with every credential configured it does not
\* throw Unknown method, and the switch has a case for it
Accepts(method) ==
  /\ handleWooCommerceRequest("index", method, EmptyObj, EnvVal).error # MsgUnknown(method)
  /\ method \in DOMAIN IndexCases

\* the request of slot r was sent as method m and has its answer
AnsweredAs(r, m) ==
  /\ entry = "index" /\ wire[r].payload = "ok" /\ wire[r].method = m
  /\ Len(out[r]) = 1 /\ "result" \in DOMAIN out[r][1]

Configured(cred) == \A f \in CredFields : Truthy(cred[f])

\* C23: every name an answer to tools/list carries is a method dispatch
\* accepts and is listed once; a dispatch with credentials is refused as
\* Unknown method exactly when its method is not among those names; and the
\* answer to initialize carries the same names under capabilities
C23_ToolsMatchDispatch ==
  \A r \in Solo :
    /\ AnsweredAs(r, "tools/list") =>
         LET t == out[r][1].result.tools
         IN  /\ \A i \in 1..Len(t) : Accepts(t[i])
             /\ \A i, j \in 1..Len(t) : t[i] = t[j] => i = j
    /\ AnsweredAs(r, "initialize") =>
         out[r][1].result.capabilities = handleListTools.tools
    /\ (entry = "index" /\ disp[r].pc \in {"awaiting", "done", "failed"}
          /\ Configured(disp[r].cred) /\ disp[r].error # MsgTypeError) =>
         (disp[r].error = MsgUnknown(disp[r].method)
            <=> \A i \in 1..Len(handleListTools.tools) :
                  handleListTools.tools[i] # disp[r].method)

\* C23: tools/list was answered over POST /message with the 119 tools
C23_Witness ==
  /\ AnsweredAs("A", "tools/list")
  /\ wire["A"].transport = "http"
  /\ Len(out["A"][1].result.tools) = 119

----
\* Properties of termination

\* C24: every request that passed envelope parsing and was dispatched is
\* eventually answered, also when the upstream never replies
C24_EveryDispatchEnds ==
  \A r \in Solo :
    (wire[r].payload = "ok" /\ disp[r].pc \in {"awaiting", "done", "failed"})
      ~> (disp[r].pc = "answered")

----
\* Properties of broadcastSSE

\* the members of a channel ({} for a channel nobody connected to)
MembersOf(channel) ==
  IF channel \in DOMAIN sseConnections THEN Members(sseConnections[channel]) ELSE {}

\* C25: a broadcast writes the event once to every stream that is a member
\* of the channel when it starts and whose write does not throw, also when
\* the write to another member throws and that member is dropped, and it
\* writes to no other stream
C25_BroadcastReachesEveryMember ==
  [][\A r \in Solo : BroadcastStep(r) =>
       LET b == SseBroadcasts[disp[r].method] IN
       \A c \in DOMAIN streams :
         /\ c \in DOMAIN streams'
         /\ streams'[c].written =
              IF c \in MembersOf(b.channel) /\ ~streams[c].throws
                THEN Append(streams[c].written, Event(b.type, disp'[r].result))
                ELSE streams[c].written]_vars

----
\* Properties of SSE channel membership

\* how often a stream is on the list of a channel
Occurrences(c, channel) ==
  IF channel \notin DOMAIN sseConnections THEN 0
  ELSE Cardinality({i \in 1..Len(sseConnections[channel]) : sseConnections[channel][i] = c})

MembershipFollowsConnection ==
  \A c \in DOMAIN streams :
    /\ ~streams[c].closed =>
         \A ch \in EventChannels :
           Occurrences(c, ch) = IF ch = streams[c].channel THEN 1 ELSE 0
    /\ streams[c].closed =>
         /\ \A ch \in EventChannels : Occurrences(c, ch) = 0
         /\ ~streams[c].timer

\* apart from the streamData call that was out when the connection closed,
\* nothing writes to a closed stream
ClosedIsSilent ==
  \A c \in DOMAIN streams :
    (streams[c].closed /\ streams[c].fetching # "initial") =>
      (c \in DOMAIN streams' /\ streams'[c].written = streams[c].written
         /\ streams'[c].fetching = "none")

\* C26: a stream is on the list of the channel it connected to, once, from
\* connect until its connection closes; after the close, whenever it comes
\* relative to the handler's own steps, it is on no list, its timer is
\* stopped, and no broadcast or timer tick writes to it
C26_MembershipFollowsConnection ==
  [](MembershipFollowsConnection) /\ [][ClosedIsSilent]_vars

----
\* Properties of the events of a dispatch

\* the channel and the event type the claim gives the four mutations
Announced ==
  [create_product |-> <<"products", "product_created">>,
   update_product |-> <<"products", "product_updated">>,
   create_order   |-> <<"orders", "order_created">>,
   update_order   |-> <<"orders", "order_updated">>]

\* the step in which the upstream call of one of the four mutations succeeds
\* in src/sse-server.ts
MutationSucceeds(r) ==
  /\ entry = "sse"
  /\ disp[r].method \in DOMAIN Announced
  /\ disp[r].pc = "awaiting" /\ disp'[r].pc = "done"

\* in that step one event with the upstream result goes to the members of
\* the method's channel and to nobody else, and nothing has been returned yet
OneEvent(r) ==
  LET channel == Announced[disp[r].method][1]
      event == Event(Announced[disp[r].method][2], disp'[r].result)
  IN  /\ out'[r] = <<>>
      /\ DOMAIN streams' = DOMAIN streams
      /\ \A c \in DOMAIN streams :
           \/ streams'[c].written = streams[c].written
           \/ /\ c \in MembersOf(channel)
              /\ streams'[c].written = Append(streams[c].written, event)
      /\ (\A c \in MembersOf(channel) : ~streams[c].throws) =>
           \A c \in MembersOf(channel) :
             streams'[c].written = Append(streams[c].written, event)

\* C27: in src/sse-server.ts the step in which the upstream call of
\* create_product, update_product, create_order or update_order succeeds
\* sends one event of the method's type with the upstream result to the
\* method's channel, before the result is returned; every other step of a
\* dispatch (a failure, a read, the response) writes to no stream
C27_MutationsBroadcastOnce ==
  [][\A r \in Solo : DispatchStep(r) =>
       IF MutationSucceeds(r) THEN OneEvent(r)
       ELSE \A c \in DOMAIN streams :
              c \in DOMAIN streams' /\ streams'[c].written = streams[c].written]_vars

\* C27: update_order has succeeded and is not answered yet; the subscriber
\* of orders was sent order_updated with the upstream result, the subscriber
\* of products nothing
C27_Witness ==
  /\ entry = "sse"
  /\ disp["A"].method = "update_order" /\ disp["A"].pc = "done"
  /\ out["A"] = <<>>
  /\ DOMAIN streams = {"s1", "s2"}
  /\ streams["s1"].channel = "orders"
  /\ streams["s1"].written = <<"connected", Event("order_updated", disp["A"].result)>>
  /\ streams["s2"].channel = "products"
  /\ streams["s2"].written = <<"connected">>

----
\* Properties of requests without params

\* C28: a request that omits params is dispatched as if params were the
\* empty object: the credentials are the defaults, and the call or the error
\* is that of the method given no parameters
C28_OmittedParamsAsEmpty ==
  \A r \in Solo :
    (wire[r].payload = "ok" /\ ~wire[r].hasParams
       /\ disp[r].pc \in {"awaiting", "failed"} /\ disp[r].replies = 0) =>
      LET o == handleWooCommerceRequest(entry, wire[r].method, EmptyObj, defaults)
      IN  /\ disp[r].cred = o.cred
          /\ disp[r].calls = o.calls
          /\ disp[r].error = o.error

----
\* Properties of force

\* the value a delete case falls back to
DefaultForce(method) ==
  IndexCases[method].query[CHOOSE i \in 1..Len(IndexCases[method].query) :
                             IndexCases[method].query[i].key = "force"].dflt

\* C29: the force sent by a delete case is the caller's params.force when
\* the caller supplied it, true or false, and the case's default only when
\* the caller omitted it
C29_ForceAsSupplied ==
  \A r \in Active :
    (disp[r].method \in ForceMethods /\ disp[r].calls # <<>>) =>
      disp[r].calls[1].query["force"] =
        IF "force" \in DOMAIN disp[r].params THEN disp[r].params["force"]
        ELSE DefaultForce(disp[r].method)

----
\* Properties of shutdown

ExitCodes ==
  proc.phase = "exited" =>
    \/ proc.code = "0" /\ Drained
    \/ proc.code = "1"

NoNewConnection ==
  proc.phase # "running" => DOMAIN streams' = DOMAIN streams

\* C30: after SIGTERM or SIGINT the process eventually exits, with code 0
\* when every connection has ended and the server has closed, with code 1
\* when the force timer fires, also while SSE streams are open; after the
\* signal no connection is accepted
C30_GracefulShutdown ==
  /\ (proc.phase = "closing") ~> (proc.phase = "exited")
  /\ [](ExitCodes)
  /\ [][NoNewConnection]_vars

\* C30: the process has exited with code 1 after SIGTERM while a stream was
\* still open
C30_Witness ==
  /\ proc = [phase |-> "exited", code |-> "1", signal |-> "SIGTERM"]
  /\ \E c \in DOMAIN streams : ~streams[c].closed


====
